---- MODULE Spec2Model ----
(***************************************************************************)
(* The dimensional ingestion engine of the Parfumelite ads dashboard       *)
(* worker (src/worker.js) over the D1 star schema (src/schema.sql).        *)
(*                                                                         *)
(* A request is served by one invocation of a route handler.  Every        *)
(* awaited D1 statement is one atomic step of the store; the handler's     *)
(* own code between two statements is private to the request.  Requests    *)
(* of different invocations interleave at statement granularity.           *)
(*                                                                         *)
(* Encodings.  A JavaScript string is the tuple of its characters.  The    *)
(* value undefined of a string-typed field is the tuple Undefined, SQL     *)
(* NULL of a text column is NullText.  Surrogate keys and date keys are    *)
(* positive integers; JavaScript null / SQL NULL of a key is Null (0).     *)
(***************************************************************************)
EXTENDS Integers, Sequences, FiniteSets, Bags, TLC

\* ------------------------------------------------------------------ bounds
\* Largest number of rows of an ingestion payload.
MaxRows == 2
\* the longest result set handed to the product aggregation, which is also
\* the largest limit
MaxResultRows == 3

\* A behaviour serves two requests (handler invocations), the second arriving
\* while the first is in flight or after it has returned.
Requests == {1, 2}

\* ------------------------------------------------------------------ values
Null == 0
Undefined == <<"undefined">>
NullText == <<"null">>
Empty == <<>>
UndefinedNum == -1

\* !value of JavaScript for a string-typed field
Falsy(v) == v = Undefined \/ v = Empty
\* !value of JavaScript for a number-typed field (undefined or 0)
FalsyNum(n) == n = UndefinedNum \/ n = 0

\* String.prototype.includes
Includes(s, sub) ==
    \E k \in 0..(Len(s) - Len(sub)) : SubSeq(s, k + 1, k + Len(sub)) = sub

\* the letters of the Latin alphabet and the accented letters of the product
\* keywords, each with its counterpart of the other case
UpperLetters == <<"A","B","C","D","E","F","G","H","I","J","K","L","M",
                  "N","O","P","Q","R","S","T","U","V","W","X","Y","Z",
                  "Á","Ễ","Ộ","Ù">>
LowerLetters == <<"a","b","c","d","e","f","g","h","i","j","k","l","m",
                  "n","o","p","q","r","s","t","u","v","w","x","y","z",
                  "á","ễ","ộ","ù">>

\* String.prototype.toLowerCase
ToLowerCase(s) ==
    [k \in DOMAIN s |->
        IF \E u \in DOMAIN UpperLetters : UpperLetters[u] = s[k]
        THEN LowerLetters[CHOOSE u \in DOMAIN UpperLetters : UpperLetters[u] = s[k]]
        ELSE s[k]]

\* String.prototype.toUpperCase
ToUpperCase(s) ==
    [k \in DOMAIN s |->
        IF \E u \in DOMAIN LowerLetters : LowerLetters[u] = s[k]
        THEN UpperLetters[CHOOSE u \in DOMAIN LowerLetters : LowerLetters[u] = s[k]]
        ELSE s[k]]

Digits == <<"0","1","2","3","4","5","6","7","8","9">>
IsDigit(c) == \E d \in DOMAIN Digits : Digits[d] = c
DigitValue(c) == (CHOOSE d \in DOMAIN Digits : Digits[d] = c) - 1

\* dateStr.replace(/-/g, '')
StripDashes(s) == SelectSeq(s, LAMBDA c : c # "-")

NaN == -2
RECURSIVE ParseDigits(_, _, _)
ParseDigits(s, k, acc) ==
    IF k > Len(s) \/ ~IsDigit(s[k]) THEN acc
    ELSE ParseDigits(s, k + 1, acc * 10 + DigitValue(s[k]))
\* parseInt of a string without sign or leading blanks: its leading digits
ParseInt(s) == IF s = Empty \/ ~IsDigit(s[1]) THEN NaN ELSE ParseDigits(s, 1, 0)

\* parseInt(dateStr.replace(/-/g, ''))
DateKeyOf(dateStr) == ParseInt(StripDashes(dateStr))

getDateKey(dateStr) == IF Falsy(dateStr) THEN Null ELSE DateKeyOf(dateStr)

\* parseVietnameseNumber on a number-typed or absent field
parseVietnameseNumber(value) == IF FalsyNum(value) THEN 0 ELSE value

\* parseInt(x) || 0 on a number-typed or absent field
ParseIntOrZero(value) == IF value = UndefinedNum THEN 0 ELSE value

\* x || null on a string-typed field
OrNull(v) == IF Falsy(v) THEN NullText ELSE v

\* ----------------------------------------------------------------- numbers
\* A number of a query result or of JavaScript arithmetic on it is an exact
\* fraction num/den in lowest terms with den > 0.  SQL NULL (JavaScript
\* null) of a number is NullNum.
RECURSIVE GCD(_, _)
GCD(a, b) == IF b = 0 THEN a ELSE GCD(b, a % b)
Abs(n) == IF n < 0 THEN -n ELSE n

Rat(n, d) ==
    LET g == GCD(Abs(n), Abs(d))
        sgn == IF d < 0 THEN -1 ELSE 1
    IN [num |-> sgn * (n \div g), den |-> sgn * (d \div g)]
Num(n) == [num |-> n, den |-> 1]
NullNum == [num |-> 0, den |-> 0]

RatSub(a, b) == Rat(a.num * b.den - b.num * a.den, a.den * b.den)
RatAdd(a, b) == Rat(a.num * b.den + b.num * a.den, a.den * b.den)
RatMul(a, b) == Rat(a.num * b.num, a.den * b.den)
\* a / b of two numbers, b not zero
RatDiv(a, b) == Rat(a.num * b.den, a.den * b.num)

\* NULLIF(x, 0)
NullIfZero(a) == IF a = Num(0) THEN NullNum ELSE a
\* x / y and x * y of SQL: NULL when an operand is NULL
SqlDiv(a, b) == IF a = NullNum \/ b = NullNum THEN NullNum ELSE RatDiv(a, b)
SqlMul(a, b) == IF a = NullNum \/ b = NullNum THEN NullNum ELSE RatMul(a, b)

\* null as an operand of JavaScript arithmetic
ToNumber(val) == IF val = NullNum THEN Num(0) ELSE val

\* const safe = (val) => val || 0
safe(val) == IF val = NullNum \/ val = Num(0) THEN Num(0) ELSE val

\* a growth that reports 0 for a zero baseline
growthZeroBaseline(curr, prev) ==
    IF prev = NullNum \/ prev = Num(0) THEN Num(0)
    ELSE RatMul(RatDiv(RatSub(ToNumber(curr), prev), prev), Num(100))

\* const growth = (curr, prev) => ...
growth(curr, prev) ==
    IF prev = NullNum \/ prev = Num(0) THEN Num(100)
    ELSE RatMul(RatDiv(RatSub(ToNumber(curr), prev), prev), Num(100))

\* the kpis object getOverview builds from the rows of its two queries
OverviewKpis(current, previous, prev) ==
    [total_spend |-> safe(current.total_spend),
     total_impressions |-> safe(current.total_impressions),
     total_results |-> safe(current.total_results),
     avg_cpm |-> safe(current.cpm),
     avg_cpr |-> safe(current.cpr),
     growth_spend |-> growth(safe(current.total_spend), safe(previous.total_spend)),
     growth_impressions |->
         growth(safe(current.total_impressions), safe(previous.total_impressions)),
     growth_results |-> growth(safe(current.total_results), safe(previous.total_results)),
     growth_cpm |-> growth(safe(current.cpm), safe(previous.cpm)),
     previous_period |-> [start |-> prev.startDate, end |-> prev.endDate]]

\* the row of SUM(amount_spent), SUM(impressions), SUM(results) and the two
\* ratios over facts whose sums are given (NullNum when no fact qualifies)
TotalsRow(spend, impressions, results) ==
    [total_spend |-> spend,
     total_impressions |-> impressions,
     total_results |-> results,
     cpr |-> SqlDiv(spend, NullIfZero(results)),
     cpm |-> SqlDiv(SqlMul(spend, Num(1000)), NullIfZero(impressions))]

\* ---------------------------------------------------------- classification
\* Known product lines with keywords, in the order of their declaration
\* (getTopProducts)
productMapping ==
    <<[name |-> "DIRTY MILK",
       keywords |-> <<<<"D","I","R","T","Y"," ","M","I","L","K">>>>],
      [name |-> "MATCHA",
       keywords |-> <<<<"M","A","T","C","H","A">>>>],
      [name |-> "LENGLINH",
       keywords |-> <<<<"L","E","N","G","L","I","N","H">>>>],
      [name |-> "WHITE CRUSH",
       keywords |-> <<<<"W","H","I","T","E"," ","C","R","U","S","H">>>>],
      [name |-> "CHOCO LOCO",
       keywords |-> <<<<"C","H","O","C","O"," ","L","O","C","O">>>>],
      [name |-> "GOLD JUICE",
       keywords |-> <<<<"G","O","L","D"," ","J","U","I","C","E">>>>],
      [name |-> "EXTRAIT EXTREME",
       keywords |-> <<<<"E","X","T","R","A","I","T">>>>],
      [name |-> "MAISON DE AMALRIC",
       keywords |-> <<<<"M","A","I","S","O","N"," ","D","E"," ","A","M","A","L","R","I","C">>>>],
      [name |-> "BLACK FRIDAY",
       keywords |-> <<<<"B","L","A","C","K"," ","F","R","I","D","A","Y">>>>],
      [name |-> "CHRISTMAS",
       keywords |-> <<<<"G","I","Á","N","G"," ","S","I","N","H">>,
                      <<"C","H","R","I","S","T","M","A","S">>,
                      <<"L","Ễ"," ","H","Ộ","I">>,
                      <<"M","Ù","A"," ","L","Ễ">>>>]>>

\* the same table as getProductDaily declares it
productMappingDaily ==
    <<[name |-> "DIRTY MILK",
       keywords |-> <<<<"D","I","R","T","Y"," ","M","I","L","K">>>>],
      [name |-> "MATCHA",
       keywords |-> <<<<"M","A","T","C","H","A">>>>],
      [name |-> "LENGLINH",
       keywords |-> <<<<"L","E","N","G","L","I","N","H">>>>],
      [name |-> "WHITE CRUSH",
       keywords |-> <<<<"W","H","I","T","E"," ","C","R","U","S","H">>>>],
      [name |-> "CHOCO LOCO",
       keywords |-> <<<<"C","H","O","C","O"," ","L","O","C","O">>>>],
      [name |-> "GOLD JUICE",
       keywords |-> <<<<"G","O","L","D"," ","J","U","I","C","E">>>>],
      [name |-> "EXTRAIT EXTREME",
       keywords |-> <<<<"E","X","T","R","A","I","T">>>>],
      [name |-> "MAISON DE AMALRIC",
       keywords |-> <<<<"M","A","I","S","O","N"," ","D","E"," ","A","M","A","L","R","I","C">>>>],
      [name |-> "BLACK FRIDAY",
       keywords |-> <<<<"B","L","A","C","K"," ","F","R","I","D","A","Y">>>>],
      [name |-> "CHRISTMAS",
       keywords |-> <<<<"G","I","Á","N","G"," ","S","I","N","H">>,
                      <<"C","H","R","I","S","T","M","A","S">>,
                      <<"L","Ễ"," ","H","Ộ","I">>,
                      <<"M","Ù","A"," ","L","Ễ">>>>]>>

MixProduct == "Mix Product"

\* a classifier in which the last product with a keyword in the name wins
ExtractProductLineLast(mapping, adName) ==
    LET upperName == ToUpperCase(adName)
        hits == {k \in DOMAIN mapping :
                    \E w \in DOMAIN mapping[k].keywords :
                        Includes(upperName, ToUpperCase(mapping[k].keywords[w]))}
    IN IF Falsy(adName) \/ adName = NullText THEN MixProduct
       ELSE IF hits = {} THEN MixProduct
       ELSE mapping[CHOOSE k \in hits : \A j \in hits : j <= k].name

\* function extractProductLine(adName) over a product table: the loops
\* return at the first product, in table order, one of whose keywords the
\* upper-cased name includes
ExtractProductLine(mapping, adName) ==
    LET upperName == ToUpperCase(adName)
        hits == {k \in DOMAIN mapping :
                    \E w \in DOMAIN mapping[k].keywords :
                        Includes(upperName, ToUpperCase(mapping[k].keywords[w]))}
    IN IF Falsy(adName) \/ adName = NullText THEN MixProduct
       ELSE IF hits = {} THEN MixProduct
       ELSE mapping[CHOOSE k \in hits : \A j \in hits : k <= j].name

\* ---------------------------------------------------------------- calendar
\* new Date("YYYY-MM-DD") of a well-formed ISO date: its civil fields
YearOf(dateStr)  == ParseInt(SubSeq(dateStr, 1, 4))
MonthOf(dateStr) == ParseInt(SubSeq(dateStr, 6, 7))
DayOf(dateStr)   == ParseInt(SubSeq(dateStr, 9, 10))

\* days since 1970-01-01 of a civil date (proleptic Gregorian calendar)
DaysFromCivil(y, m, d) ==
    LET yy  == IF m <= 2 THEN y - 1 ELSE y
        era == yy \div 400
        yoe == yy - era * 400
        mp  == (m + 9) % 12
        doy == (153 * mp + 2) \div 5 + d - 1
        doe == yoe * 365 + yoe \div 4 - yoe \div 100 + doy
    IN era * 146097 + doe - 719468

\* Date.prototype.getDay: 0 = Sunday .. 6 = Saturday
GetDay(y, m, d) == (DaysFromCivil(y, m, d) + 4) % 7

getWeekOfYear(y, m, d) ==
    LET diffDays == DaysFromCivil(y, m, d) - DaysFromCivil(y, 1, 1)
        startDay == GetDay(y, 1, 1)
    IN (diffDays + startDay + 6) \div 7

dayNames == <<"Sunday", "Monday", "Tuesday", "Wednesday", "Thursday", "Friday", "Saturday">>
monthNames == <<"January", "February", "March", "April", "May", "June",
                "July", "August", "September", "October", "November", "December">>

\* new Date("YYYY-MM-DD").getTime() of a well-formed ISO date, which JavaScript
\* reads as UTC midnight.  Times are counted in whole days (units of
\* 86400000 ms): every time the worker computes from such a date is a whole
\* number of days.
TimeOf(dateStr) == DaysFromCivil(YearOf(dateStr), MonthOf(dateStr), DayOf(dateStr))

\* the civil date (UTC) of a time
CivilFromDays(t) ==
    LET z   == t + 719468
        era == z \div 146097
        doe == z - era * 146097
        yoe == (doe - doe \div 1460 + doe \div 36524 - doe \div 146096) \div 365
        doy == doe - (365 * yoe + yoe \div 4 - yoe \div 100)
        mp  == (5 * doy + 2) \div 153
        m   == IF mp < 10 THEN mp + 3 ELSE mp - 9
    IN [year |-> yoe + era * 400 + (IF m <= 2 THEN 1 ELSE 0),
        month |-> m,
        day |-> doy - (153 * mp + 2) \div 5 + 1]

Pad2(n) == <<Digits[((n \div 10) % 10) + 1], Digits[(n % 10) + 1]>>
Pad4(n) == Pad2(n \div 100) \o Pad2(n % 100)

\* date.toISOString().split('T')[0]
ToISODate(t) ==
    LET c == CivilFromDays(t)
    IN Pad4(c.year) \o <<"-">> \o Pad2(c.month) \o <<"-">> \o Pad2(c.day)

\* a previous window that ends on the first day of the current one
getPreviousPeriodOverlap(startDate, endDate) ==
    LET start == TimeOf(startDate)
        end == TimeOf(endDate)
        duration == end - start
        prevEnd == start
        prevStart == prevEnd - duration
    IN [startDate |-> ToISODate(prevStart), endDate |-> ToISODate(prevEnd)]

getPreviousPeriod(startDate, endDate) ==
    LET start == TimeOf(startDate)
        end == TimeOf(endDate)
        duration == end - start
        prevEnd == start - 1
        prevStart == prevEnd - duration
    IN [startDate |-> ToISODate(prevStart), endDate |-> ToISODate(prevEnd)]

\* ------------------------------------------------------------------- store
\* A table is the sequence of its rows in insertion order.  The AUTOINCREMENT
\* key of a new row is one more than the number of rows (no row is deleted
\* and a rejected insert consumes no key).
VARIABLES dim_date, dim_campaign, dim_age_group, dim_gender, dim_region,
          fact_ads_performance, fact_ads_demographics, fact_ads_regions

store == <<dim_date, dim_campaign, dim_age_group, dim_gender, dim_region,
           fact_ads_performance, fact_ads_demographics, fact_ads_regions>>
dims  == <<dim_date, dim_campaign, dim_age_group, dim_gender, dim_region>>
facts == <<fact_ads_performance, fact_ads_demographics, fact_ads_regions>>

Range(seq) == {seq[k] : k \in DOMAIN seq}

\* a lookup that never finds a row
SelectCampaignNone(name) == <<>>

\* SELECT ... WHERE col = ?: the matching rows of a table, in table order
SelectCampaign(name) == SelectSeq(dim_campaign, LAMBDA r : r.campaign_name = name)
SelectDate(key)      == SelectSeq(dim_date, LAMBDA r : r.date_key = key)
SelectAge(range)     == SelectSeq(dim_age_group, LAMBDA r : r.age_range = range)
SelectGender(g)      == SelectSeq(dim_gender, LAMBDA r : r.gender = g)
SelectRegion(name)   == SelectSeq(dim_region, LAMBDA r : r.region_name = name)

\* a campaign dimension without the UNIQUE constraint on campaign_name
CampaignNotUnique(name) == TRUE

\* UNIQUE / PRIMARY KEY constraints of the dimension tables: may the row be added
CampaignUnique(name)  == SelectCampaign(name) = <<>>
DateUnique(key, full) ==
    SelectDate(key) = <<>> /\ \A r \in Range(dim_date) : r.full_date # full
AgeUnique(range)      == SelectAge(range) = <<>>
GenderUnique(g)       == SelectGender(g) = <<>>
RegionUnique(name)    == SelectRegion(name) = <<>>

\* seed rows of schema.sql
Str_13_17 == <<"1","3","-","1","7">>
Str_18_24 == <<"1","8","-","2","4">>
Str_25_34 == <<"2","5","-","3","4">>
Str_35_44 == <<"3","5","-","4","4">>
Str_45_54 == <<"4","5","-","5","4">>
Str_55_64 == <<"5","5","-","6","4">>
Str_65    == <<"6","5","+">>
Str_female  == <<"f","e","m","a","l","e">>
Str_male    == <<"m","a","l","e">>
Str_unknown == <<"u","n","k","n","o","w","n">>

SeedAgeRanges == <<Str_13_17, Str_18_24, Str_25_34, Str_35_44, Str_45_54, Str_55_64, Str_65>>
SeedGenders   == <<Str_female, Str_male, Str_unknown>>

SeedAgeGroup == [k \in DOMAIN SeedAgeRanges |-> [age_id |-> k, age_range |-> SeedAgeRanges[k]]]
SeedGender   == [k \in DOMAIN SeedGenders |-> [gender_id |-> k, gender |-> SeedGenders[k]]]

\* an objective that tests "Visit" before "Impression"
ObjectiveVisitFirst(name) ==
    IF Includes(name, <<"V","i","s","i","t">>) THEN "Visit"
    ELSE IF Includes(name, <<"I","m","p","r","e","s","s","i","o","n">>) THEN "Impression"
    ELSE IF Includes(name, <<"M","e","s","s">>) THEN "Message"
    ELSE "Unknown"

\* derive the objective of a new campaign from its name
Objective(name) ==
    IF Includes(name, <<"I","m","p","r","e","s","s","i","o","n">>) THEN "Impression"
    ELSE IF Includes(name, <<"V","i","s","i","t">>) THEN "Visit"
    ELSE IF Includes(name, <<"M","e","s","s">>) THEN "Message"
    ELSE "Unknown"

RegionType(regionName) ==
    IF Includes(regionName, <<"C","i","t","y">>) THEN "City" ELSE "Province"

NewCampaignRow(name) ==
    [campaign_id |-> Len(dim_campaign) + 1, campaign_name |-> name,
     platform |-> "Facebook", objective |-> Objective(name)]

NewDateRow(dateStr) ==
    LET y == YearOf(dateStr)
        m == MonthOf(dateStr)
        d == DayOf(dateStr)
        wd == GetDay(y, m, d)
    IN [date_key |-> DateKeyOf(dateStr), full_date |-> dateStr,
        year |-> y, quarter |-> (m + 2) \div 3, month |-> m,
        month_name |-> monthNames[m], week_of_year |-> getWeekOfYear(y, m, d),
        day_of_month |-> d, day_of_week |-> IF wd = 0 THEN 7 ELSE wd,
        day_name |-> dayNames[wd + 1],
        is_weekend |-> IF wd = 0 \/ wd = 6 THEN 1 ELSE 0]

NewAgeRow(ageRange) == [age_id |-> Len(dim_age_group) + 1, age_range |-> ageRange]
NewGenderRow(g)     == [gender_id |-> Len(dim_gender) + 1, gender |-> g]
NewRegionRow(name)  ==
    [region_id |-> Len(dim_region) + 1, region_name |-> name,
     region_type |-> RegionType(name)]

\* ---------------------------------------------------------------- requests
VARIABLES
    pc,          \* per request: the statement it executes next
    kind,        \* per request: the route it was sent to
    data,        \* per request: the parsed request body (request.json())
    i,           \* per request: index of the row in work / statements done
    loc,         \* per request: the keys resolved for the row in work
    processed,   \* per request: let processed
    errors,      \* per request: let errors
    response,    \* per request: the Response returned
    insertAttempts, \* history: per dimension table, the bag of natural keys
                    \* an INSERT statement was executed for
    calls        \* history: the resolver calls that returned

reqvars == <<pc, kind, data, i, loc, processed, errors, response>>
vars == <<store, reqvars, insertAttempts, calls>>

IngestKinds == {"performance", "demographics", "regions"}
ReadOps == {"overview", "daily", "campaigns", "demographics_read", "regions_read",
            "breakdown", "top-ads", "top-products", "product-daily", "health"}

\* number of SELECT statements a read handler awaits
NumStatements(op, params) ==
    CASE op = "overview"          -> 2
      [] op = "daily"             -> IF params.compare THEN 2 ELSE 1
      [] op = "campaigns"         -> 1
      [] op = "demographics_read" -> 3
      [] op = "regions_read"      -> 1
      [] op = "breakdown"         -> 3
      [] op = "top-ads"           -> 4
      [] op = "top-products"      -> 3
      [] op = "product-daily"     -> 1
      [] op = "health"            -> 1

\* JSON values of a response body
JsonNull      == [type |-> "null"]
JsonUndefined == [type |-> "undefined"]
JsonNumber(n) == [type |-> "number", value |-> n]
JsonString(t) == [type |-> "string", value |-> t]
JsonArray(xs) == [type |-> "array", items |-> xs]
JsonRows      == [type |-> "rows"]

\* JSON.stringify of an object: a property whose value is undefined is dropped
\* (an array or a scalar is kept as it is)
JSONStringify(obj) ==
    IF "type" \in DOMAIN obj THEN obj
    ELSE [f \in {g \in DOMAIN obj : obj[g] # JsonUndefined} |-> obj[f]]

jsonResponse(body, status) ==
    [status |-> status,
     success |-> (status >= 200 /\ status < 300),
     data |-> JSONStringify(body)]

NoResponse == [status |-> 0, success |-> FALSE, data |-> [pending |-> JsonNull]]

\* a result whose errors property is left undefined when no row failed
IngestResultOmit(n, errs) ==
    [processed |-> JsonNumber(n),
     errors |-> IF Len(errs) > 0 THEN JsonArray(errs) ELSE JsonUndefined]

\* the object an ingest handler returns after the loop
IngestResult(n, errs) ==
    [processed |-> JsonNumber(n),
     errors |-> IF Len(errs) > 0 THEN JsonArray(errs) ELSE JsonNull]

NoKeys == [campaignId |-> Null, dateKey |-> Null, ageId |-> Null,
           genderId |-> Null, regionId |-> Null]

\* ------------------------------------------------------------------ inputs
cA == <<"V","i","s","i","t"," ","F","B">>
cB == <<"M","e","s","s"," ","I","G">>
d1 == <<"2","0","2","5","-","1","0","-","1","4">>
d2 == <<"2","0","2","5","-","1","0","-","1","9">>
aNew == <<"7","0","+">>
gMale == <<"M","a","l","e">>
gOther == <<"O","t","h","e","r">>
gOTHER == <<"O","T","H","E","R">>
gUNKNOWN == <<"U","N","K","N","O","W","N">>
rA == <<"H","u","e">>
rB == <<"H","C","M"," ","C","i","t","y">>

PerfRow(c, d) ==
    [Campaign |-> c, Date |-> d, AdSet |-> Undefined, Ad |-> <<"A","d">>,
     Indicator |-> Undefined, ActionKey |-> Undefined, AmountSpent |-> 5,
     Results |-> 1, CostPerResult |-> UndefinedNum, Impressions |-> 10]
DemoRow(c, d, a, g) ==
    [Campaign |-> c, Date |-> d, ActionKey |-> Undefined, Age |-> a, Gender |-> g,
     Spend |-> 5, Impressions |-> 10]
RegionRow(c, d, r) ==
    [Campaign |-> c, Date |-> d, Region |-> r, Spend |-> 5, Impressions |-> 10]

\* rows of the payloads of requests served one at a time
SeqRows(k) ==
    CASE k = "performance" ->
            {PerfRow(Undefined, d1), PerfRow(cA, d1), PerfRow(cB, d2)}
      [] k = "demographics" ->
            {DemoRow(cA, d1, Undefined, Empty), DemoRow(cA, d2, Str_18_24, gMale),
             DemoRow(cB, d1, aNew, gOther)}
      [] k = "regions" ->
            {RegionRow(cA, d1, Undefined), RegionRow(cB, d2, rB),
             RegionRow(Empty, Undefined, Empty)}

\* rows of the payloads of requests served concurrently
RaceRows(k) ==
    CASE k = "performance"  -> {PerfRow(c, d1) : c \in {Undefined, cA}}
      [] k = "demographics" -> {DemoRow(cA, d1, aNew, gOther)}
      [] k = "regions"      -> {RegionRow(cA, d1, rA)}

\* the ISO date string of a civil date
IsoDate(y, m, d) == Pad4(y) \o <<"-">> \o Pad2(m) \o <<"-">> \o Pad2(d)

\* startDate / endDate of a query: runs of neighbouring days around the ends
\* of months and years, in leap and common years
DateRuns ==
    {{IsoDate(2023, 12, 31), IsoDate(2024, 1, 1), IsoDate(2024, 1, 31)},
     {IsoDate(2024, 2, 28), IsoDate(2024, 2, 29), IsoDate(2024, 3, 1)},
     {IsoDate(2025, 2, 28), IsoDate(2025, 3, 1)},
     {d1, d2},
     {IsoDate(2025, 11, 30), IsoDate(2025, 12, 1), IsoDate(2025, 12, 10)},
     {IsoDate(2100, 2, 28), IsoDate(2100, 3, 1)},
     {IsoDate(2024, 1, 1), IsoDate(2024, 12, 31)}}
Periods ==
    UNION {{[startDate |-> a, endDate |-> b] : a, b \in run} : run \in DateRuns}

\* ad names
adDirtyMilk == <<"D","I","R","T","Y"," ","M","I","L","K"," ","5","0","m","l"," ","P","r","o","m","o">>
adRandom == <<"R","a","n","d","o","m"," ","A","d">>
adMatchaMilk == <<"m","a","t","c","h","a"," ","d","i","r","t","y"," ","m","i","l","k">>
adExtrait == <<"E","x","t","r","a","i","t"," ","1","0","m","l">>
adFestival == <<"L","ễ"," ","h","ộ","i"," ","B","l","a","c","k"," ","F","r","i","d","a","y">>
adSeason == <<"M","ù","a"," ","l","ễ"," ","s","a","l","e">>
adNoel == <<"G","i","á","n","g"," ","s","i","n","h">>
AdNames == {adDirtyMilk, adRandom, adMatchaMilk, adExtrait, adFestival, adSeason,
            adNoel, Empty, Undefined, NullText}

\* rows of the payloads that fill the store before a query is served
cBoth == <<"M","e","s","s"," ","F","B"," ","I","G">>
cNone == <<"P","r","o","m","o">>
cLower == <<"D","i","g","i","t","a","l"," ","V","i","s","i","t">>
dP == IsoDate(2025, 10, 13)
PerfFact(c, d, ad, spend, results, impressions) ==
    [Campaign |-> c, Date |-> d, AdSet |-> Undefined, Ad |-> ad,
     Indicator |-> Undefined, ActionKey |-> Undefined, AmountSpent |-> spend,
     Results |-> results, CostPerResult |-> UndefinedNum, Impressions |-> impressions]
QueryRows(k) ==
    CASE k = "performance" ->
            {PerfFact(cA, dP, adDirtyMilk, 100, 10, 1000),
             PerfFact(cB, d1, adRandom, 150, 0, 2000),
             PerfFact(cBoth, d2, adMatchaMilk, 100, 5, 0),
             PerfFact(cNone, d1, Undefined, 50, 1, 500),
             PerfFact(cLower, d2, adExtrait, 10, 2, 100)}
      [] k = "demographics" ->
            {DemoRow(cA, d1, Str_18_24, gMale), DemoRow(cB, d2, aNew, gOther)}
      [] k = "regions" ->
            {RegionRow(cA, d1, rA), RegionRow(cB, d2, rB)}

\* rows of regions payloads whose campaign and region names carry several
\* tokens, tokens in lower case, or none
cMulti == <<"M","e","s","s"," ","V","i","s","i","t"," ","I","m","p","r","e","s","s","i","o","n">>
cMessVisit == <<"M","e","s","s"," ","V","i","s","i","t"," ","I","G">>
cLowerVisit == <<"v","i","s","i","t"," ","i","m","p","r","e","s","s","i","o","n">>
rLowerCity == <<"c","i","t","y"," ","h","a","l","l">>
DeriveRows ==
    {RegionRow(cMulti, d1, rB), RegionRow(cMessVisit, d1, rA),
     RegionRow(cLowerVisit, d1, rLowerCity), RegionRow(cB, d2, rA)}

\* rows of demographics payloads whose genders differ in letter case only
CaseRows ==
    {DemoRow(cA, d1, Undefined, gUNKNOWN), DemoRow(cA, d1, Empty, gOther),
     DemoRow(cA, d1, aNew, gOTHER), DemoRow(cA, d1, Str_65, Undefined)}

SeqsUpTo(S, n) == UNION {[1..m -> S] : m \in 0..n}

\* request bodies: an array of rows, or a JSON value that is no array
ArrayBody(rows) == [isArray |-> TRUE, rows |-> rows]
NotArrayBody    == [isArray |-> FALSE, rows |-> <<>>]
SeqBodies(k)  == {ArrayBody(rs) : rs \in SeqsUpTo(SeqRows(k), MaxRows)} \cup {NotArrayBody}
RaceBodies(k) == {ArrayBody(rs) : rs \in SeqsUpTo(RaceRows(k), MaxRows)} \cup {NotArrayBody}
QueryBodies(k) == {ArrayBody(rs) : rs \in SeqsUpTo(QueryRows(k), MaxRows)} \cup {NotArrayBody}
DeriveBodies  == {ArrayBody(rs) : rs \in SeqsUpTo(DeriveRows, MaxRows)}
CaseBodies    == {ArrayBody(rs) : rs \in SeqsUpTo(CaseRows, MaxRows)}

ReadParams(op) == IF op = "daily" THEN {[compare |-> TRUE], [compare |-> FALSE]}
                  ELSE {[compare |-> FALSE]}

\* the search parameters of a query and the day (UTC) it is served: startDate
\* and endDate given or absent, compare=true or not, limit=1 or none
Today == IsoDate(2025, 11, 14)
QueryParams(op) ==
    {[startDate |-> w[1], endDate |-> w[2], compare |-> c, limit |-> n,
      today |-> Today] :
        w \in {<<Undefined, Undefined>>, <<d1, Undefined>>, <<Undefined, d2>>,
               <<d1, d1>>, <<d1, d2>>},
        c \in IF op = "daily" THEN BOOLEAN ELSE {FALSE},
        n \in IF op \in {"campaigns", "regions_read"} THEN {UndefinedNum, 1}
              ELSE {UndefinedNum}}

\* -------------------------------------------------------------------- init
Init ==
    /\ dim_date = <<>>
    /\ dim_campaign = <<>>
    /\ dim_age_group = SeedAgeGroup
    /\ dim_gender = SeedGender
    /\ dim_region = <<>>
    /\ fact_ads_performance = <<>>
    /\ fact_ads_demographics = <<>>
    /\ fact_ads_regions = <<>>
    /\ pc = [p \in Requests |-> "idle"]
    /\ kind = [p \in Requests |-> "none"]
    /\ data = [p \in Requests |-> NotArrayBody]
    /\ i = [p \in Requests |-> 0]
    /\ loc = [p \in Requests |-> NoKeys]
    /\ processed = [p \in Requests |-> 0]
    /\ errors = [p \in Requests |-> <<>>]
    /\ response = [p \in Requests |-> NoResponse]
    /\ insertAttempts = [t \in {"dim_date", "dim_campaign", "dim_age_group",
                                "dim_gender", "dim_region"} |-> EmptyBag]
    /\ calls = {}

\* ----------------------------------------------------------------- helpers
Row(p) == data[p].rows[i[p]]

Logged(fn, arg, ret, n) ==
    calls' = calls \cup {[fn |-> fn, arg |-> arg, ret |-> ret, stmts |-> n]}

Attempted(table, key) ==
    insertAttempts' = [insertAttempts EXCEPT ![table] = @ (+) SetToBag({key})]

\* a resolver returns val to the loop body, which goes on to its next await
Return(p, field, val, next) ==
    /\ loc' = [loc EXCEPT ![p][field] = val]
    /\ pc' = [pc EXCEPT ![p] = next]
    /\ UNCHANGED <<kind, data, i, processed, errors, response>>

\* the loop body of the row in work is over: next row, or the handler returns
EndRow(p, n, errs) ==
    /\ processed' = [processed EXCEPT ![p] = n]
    /\ errors' = [errors EXCEPT ![p] = errs]
    /\ loc' = [loc EXCEPT ![p] = NoKeys]
    /\ UNCHANGED <<kind, data>>
    /\ IF i[p] < Len(data[p].rows)
       THEN /\ i' = [i EXCEPT ![p] = @ + 1]
            /\ pc' = [pc EXCEPT ![p] = "campaign"]
            /\ UNCHANGED response
       ELSE /\ pc' = [pc EXCEPT ![p] = "done"]
            /\ response' = [response EXCEPT ![p] = jsonResponse(IngestResult(n, errs), 200)]
            /\ UNCHANGED i

\* a loop body without try/catch: the error reaches the catch of fetch
CatchRowAbort(p, message) ==
    /\ pc' = [pc EXCEPT ![p] = "done"]
    /\ response' = [response EXCEPT ![p] =
            [status |-> 500, success |-> FALSE,
             data |-> [error |-> JsonString("Internal Server Error"),
                       message |-> JsonString(message)]]]
    /\ UNCHANGED <<kind, data, i, loc, processed, errors>>

\* catch (err) { errors.push({ row: row, error: err.message }) }
\* (idx is the position of the row object in the payload)
CatchRow(p, message) ==
    EndRow(p, processed[p],
           Append(errors[p], [idx |-> i[p], row |-> Row(p), error |-> message]))

\* a loop body that inserts the fact right after the date was resolved
AfterDateToFact(k) ==
    CASE k = "performance"  -> "fact"
      [] k = "demographics" -> "fact"
      [] k = "regions"      -> "fact"

\* the await that follows a resolver in the loop body of a handler
AfterDate(k) ==
    CASE k = "performance"  -> "fact"
      [] k = "demographics" -> "age"
      [] k = "regions"      -> "region"

\* ---------------------------------------------------------------- handlers
\* a handler that takes a body that is no array for an empty batch
BeginIngestUnchecked(p, k, body) ==
    /\ pc[p] = "idle"
    /\ kind' = [kind EXCEPT ![p] = k]
    /\ data' = [data EXCEPT ![p] = body]
    /\ IF Len(body.rows) = 0
       THEN /\ response' = [response EXCEPT ![p] = jsonResponse(IngestResult(0, <<>>), 200)]
            /\ pc' = [pc EXCEPT ![p] = "done"]
            /\ UNCHANGED i
       ELSE /\ pc' = [pc EXCEPT ![p] = "campaign"]
            /\ i' = [i EXCEPT ![p] = 1]
            /\ UNCHANGED response
    /\ UNCHANGED <<store, loc, processed, errors, insertAttempts, calls>>

\* ingestPerformance / ingestDemographics / ingestRegions up to the loop
BeginIngest(p, k, body) ==
    /\ pc[p] = "idle"
    /\ kind' = [kind EXCEPT ![p] = k]
    /\ data' = [data EXCEPT ![p] = body]
    /\ IF ~body.isArray
       THEN /\ response' = [response EXCEPT ![p] =
                    jsonResponse([error |-> JsonString("Data must be an array")], 400)]
            /\ pc' = [pc EXCEPT ![p] = "done"]
            /\ UNCHANGED i
       ELSE IF Len(body.rows) = 0
       THEN /\ response' = [response EXCEPT ![p] = jsonResponse(IngestResult(0, <<>>), 200)]
            /\ pc' = [pc EXCEPT ![p] = "done"]
            /\ UNCHANGED i
       ELSE /\ pc' = [pc EXCEPT ![p] = "campaign"]
            /\ i' = [i EXCEPT ![p] = 1]
            /\ UNCHANGED response
    /\ UNCHANGED <<store, loc, processed, errors, insertAttempts, calls>>

\* a campaign resolver that goes to its INSERT without the SELECT
getOrCreateCampaignInsertOnly(p) ==
    /\ pc[p] = "campaign"
    /\ LET name == Row(p).Campaign
       IN IF Falsy(name)
          THEN /\ Return(p, "campaignId", Null, "date")
               /\ Logged("getOrCreateCampaign", name, Null, 0)
          ELSE /\ pc' = [pc EXCEPT ![p] = "campaignInsert"]
               /\ UNCHANGED <<kind, data, i, loc, processed, errors, response, calls>>
    /\ UNCHANGED <<store, insertAttempts>>

\* a campaign resolver without the guard on a missing name
getOrCreateCampaignUnguarded(p) ==
    /\ pc[p] = "campaign"
    /\ LET name == Row(p).Campaign
           existing == SelectCampaign(name)
       IN IF existing # <<>>
          THEN /\ Return(p, "campaignId", existing[1].campaign_id, "date")
               /\ Logged("getOrCreateCampaign", name, existing[1].campaign_id, 1)
          ELSE /\ pc' = [pc EXCEPT ![p] = "campaignInsert"]
               /\ UNCHANGED <<kind, data, i, loc, processed, errors, response, calls>>
    /\ UNCHANGED <<store, insertAttempts>>

\* getOrCreateCampaign up to and including its SELECT
getOrCreateCampaign(p) ==
    /\ pc[p] = "campaign"
    /\ LET name == Row(p).Campaign
           existing == SelectCampaign(name)
       IN IF Falsy(name)
          THEN /\ Return(p, "campaignId", Null, "date")
               /\ Logged("getOrCreateCampaign", name, Null, 0)
          ELSE IF existing # <<>>
          THEN /\ Return(p, "campaignId", existing[1].campaign_id, "date")
               /\ Logged("getOrCreateCampaign", name, existing[1].campaign_id, 1)
          ELSE /\ pc' = [pc EXCEPT ![p] = "campaignInsert"]
               /\ UNCHANGED <<kind, data, i, loc, processed, errors, response, calls>>
    /\ UNCHANGED <<store, insertAttempts>>

\* getOrCreateCampaign: INSERT INTO dim_campaign ... RETURNING campaign_id
InsertCampaign(p) ==
    /\ pc[p] = "campaignInsert"
    /\ LET name == Row(p).Campaign
           new == NewCampaignRow(name)
       IN /\ Attempted("dim_campaign", name)
          /\ IF CampaignUnique(name)
             THEN /\ dim_campaign' = Append(dim_campaign, new)
                  /\ Return(p, "campaignId", new.campaign_id, "date")
                  /\ Logged("getOrCreateCampaign", name, new.campaign_id, 2)
             ELSE /\ CatchRow(p, "UNIQUE constraint failed: dim_campaign.campaign_name")
                  /\ UNCHANGED <<dim_campaign, calls>>
    /\ UNCHANGED <<dim_date, dim_age_group, dim_gender, dim_region, facts>>

\* getOrCreateDate up to and including its SELECT
getOrCreateDate(p) ==
    /\ pc[p] = "date"
    /\ LET dateStr == Row(p).Date
           existing == SelectDate(DateKeyOf(dateStr))
       IN IF Falsy(dateStr)
          THEN /\ Return(p, "dateKey", Null, AfterDate(kind[p]))
               /\ Logged("getOrCreateDate", dateStr, Null, 0)
          ELSE IF existing # <<>>
          THEN /\ Return(p, "dateKey", existing[1].date_key, AfterDate(kind[p]))
               /\ Logged("getOrCreateDate", dateStr, existing[1].date_key, 1)
          ELSE /\ pc' = [pc EXCEPT ![p] = "dateInsert"]
               /\ UNCHANGED <<kind, data, i, loc, processed, errors, response, calls>>
    /\ UNCHANGED <<store, insertAttempts>>

\* getOrCreateDate: INSERT INTO dim_date
InsertDate(p) ==
    /\ pc[p] = "dateInsert"
    /\ LET dateStr == Row(p).Date
           new == NewDateRow(dateStr)
       IN /\ Attempted("dim_date", new.date_key)
          /\ IF DateUnique(new.date_key, dateStr)
             THEN /\ dim_date' = Append(dim_date, new)
                  /\ Return(p, "dateKey", new.date_key, AfterDate(kind[p]))
                  /\ Logged("getOrCreateDate", dateStr, new.date_key, 2)
             ELSE /\ CatchRow(p, "UNIQUE constraint failed: dim_date.date_key")
                  /\ UNCHANGED <<dim_date, calls>>
    /\ UNCHANGED <<dim_campaign, dim_age_group, dim_gender, dim_region, facts>>

\* getOrCreateAge up to and including its SELECT
getOrCreateAge(p) ==
    /\ pc[p] = "age"
    /\ LET ageRange == Row(p).Age
           existing == SelectAge(ageRange)
       IN IF Falsy(ageRange)
          THEN /\ Return(p, "ageId", 1, "gender")
               /\ Logged("getOrCreateAge", ageRange, 1, 0)
          ELSE IF existing # <<>>
          THEN /\ Return(p, "ageId", existing[1].age_id, "gender")
               /\ Logged("getOrCreateAge", ageRange, existing[1].age_id, 1)
          ELSE /\ pc' = [pc EXCEPT ![p] = "ageInsert"]
               /\ UNCHANGED <<kind, data, i, loc, processed, errors, response, calls>>
    /\ UNCHANGED <<store, insertAttempts>>

\* getOrCreateAge: INSERT INTO dim_age_group ... RETURNING age_id
InsertAge(p) ==
    /\ pc[p] = "ageInsert"
    /\ LET ageRange == Row(p).Age
           new == NewAgeRow(ageRange)
       IN /\ Attempted("dim_age_group", ageRange)
          /\ IF AgeUnique(ageRange)
             THEN /\ dim_age_group' = Append(dim_age_group, new)
                  /\ Return(p, "ageId", new.age_id, "gender")
                  /\ Logged("getOrCreateAge", ageRange, new.age_id, 2)
             ELSE /\ CatchRow(p, "UNIQUE constraint failed: dim_age_group.age_range")
                  /\ UNCHANGED <<dim_age_group, calls>>
    /\ UNCHANGED <<dim_date, dim_campaign, dim_gender, dim_region, facts>>

\* getOrCreateGender up to and including its SELECT
getOrCreateGender(p) ==
    /\ pc[p] = "gender"
    /\ LET gender == Row(p).Gender
           normalized == ToLowerCase(gender)
           existing == SelectGender(normalized)
       IN IF Falsy(gender)
          THEN /\ Return(p, "genderId", 3, "fact")
               /\ Logged("getOrCreateGender", gender, 3, 0)
          ELSE IF existing # <<>>
          THEN /\ Return(p, "genderId", existing[1].gender_id, "fact")
               /\ Logged("getOrCreateGender", gender, existing[1].gender_id, 1)
          ELSE /\ pc' = [pc EXCEPT ![p] = "genderInsert"]
               /\ UNCHANGED <<kind, data, i, loc, processed, errors, response, calls>>
    /\ UNCHANGED <<store, insertAttempts>>

\* an INSERT that binds the gender as it was sent
InsertGenderLiteral(p) ==
    /\ pc[p] = "genderInsert"
    /\ LET gender == Row(p).Gender
           new == NewGenderRow(gender)
       IN /\ Attempted("dim_gender", gender)
          /\ IF GenderUnique(gender)
             THEN /\ dim_gender' = Append(dim_gender, new)
                  /\ Return(p, "genderId", new.gender_id, "fact")
                  /\ Logged("getOrCreateGender", gender, new.gender_id, 2)
             ELSE /\ CatchRow(p, "UNIQUE constraint failed: dim_gender.gender")
                  /\ UNCHANGED <<dim_gender, calls>>
    /\ UNCHANGED <<dim_date, dim_campaign, dim_age_group, dim_region, facts>>

\* getOrCreateGender: INSERT INTO dim_gender ... RETURNING gender_id
InsertGender(p) ==
    /\ pc[p] = "genderInsert"
    /\ LET gender == Row(p).Gender
           normalized == ToLowerCase(gender)
           new == NewGenderRow(normalized)
       IN /\ Attempted("dim_gender", normalized)
          /\ IF GenderUnique(normalized)
             THEN /\ dim_gender' = Append(dim_gender, new)
                  /\ Return(p, "genderId", new.gender_id, "fact")
                  /\ Logged("getOrCreateGender", gender, new.gender_id, 2)
             ELSE /\ CatchRow(p, "UNIQUE constraint failed: dim_gender.gender")
                  /\ UNCHANGED <<dim_gender, calls>>
    /\ UNCHANGED <<dim_date, dim_campaign, dim_age_group, dim_region, facts>>

\* getOrCreateRegion up to and including its SELECT
getOrCreateRegion(p) ==
    /\ pc[p] = "region"
    /\ LET regionName == Row(p).Region
           existing == SelectRegion(regionName)
       IN IF Falsy(regionName)
          THEN /\ Return(p, "regionId", Null, "fact")
               /\ Logged("getOrCreateRegion", regionName, Null, 0)
          ELSE IF existing # <<>>
          THEN /\ Return(p, "regionId", existing[1].region_id, "fact")
               /\ Logged("getOrCreateRegion", regionName, existing[1].region_id, 1)
          ELSE /\ pc' = [pc EXCEPT ![p] = "regionInsert"]
               /\ UNCHANGED <<kind, data, i, loc, processed, errors, response, calls>>
    /\ UNCHANGED <<store, insertAttempts>>

\* getOrCreateRegion: INSERT INTO dim_region ... RETURNING region_id
InsertRegion(p) ==
    /\ pc[p] = "regionInsert"
    /\ LET regionName == Row(p).Region
           new == NewRegionRow(regionName)
       IN /\ Attempted("dim_region", regionName)
          /\ IF RegionUnique(regionName)
             THEN /\ dim_region' = Append(dim_region, new)
                  /\ Return(p, "regionId", new.region_id, "fact")
                  /\ Logged("getOrCreateRegion", regionName, new.region_id, 2)
             ELSE /\ CatchRow(p, "UNIQUE constraint failed: dim_region.region_name")
                  /\ UNCHANGED <<dim_region, calls>>
    /\ UNCHANGED <<dim_date, dim_campaign, dim_age_group, dim_gender, facts>>

\* the row an ingest handler binds to its INSERT INTO fact_...; src is the
\* (request, payload position) of the input row it was built from
NewFact(p) ==
    LET row == Row(p)
    IN CASE kind[p] = "performance" ->
              [id |-> Len(fact_ads_performance) + 1,
               date_key |-> loc[p].dateKey, campaign_id |-> loc[p].campaignId,
               adset_name |-> OrNull(row.AdSet), ad_name |-> OrNull(row.Ad),
               indicator |-> OrNull(row.Indicator), action_key |-> OrNull(row.ActionKey),
               amount_spent |-> parseVietnameseNumber(row.AmountSpent),
               results |-> ParseIntOrZero(row.Results),
               cost_per_result |-> parseVietnameseNumber(row.CostPerResult),
               impressions |-> ParseIntOrZero(row.Impressions),
               src |-> <<p, i[p]>>]
         [] kind[p] = "demographics" ->
              [id |-> Len(fact_ads_demographics) + 1,
               date_key |-> loc[p].dateKey, campaign_id |-> loc[p].campaignId,
               action_key |-> OrNull(row.ActionKey),
               age_id |-> loc[p].ageId, gender_id |-> loc[p].genderId,
               spend |-> parseVietnameseNumber(row.Spend),
               impressions |-> ParseIntOrZero(row.Impressions),
               src |-> <<p, i[p]>>]
         [] kind[p] = "regions" ->
              [id |-> Len(fact_ads_regions) + 1,
               date_key |-> loc[p].dateKey, campaign_id |-> loc[p].campaignId,
               region_id |-> loc[p].regionId,
               spend |-> parseVietnameseNumber(row.Spend),
               impressions |-> ParseIntOrZero(row.Impressions),
               src |-> <<p, i[p]>>]

HasDate(key)    == \E r \in Range(dim_date) : r.date_key = key
HasCampaign(id) == \E r \in Range(dim_campaign) : r.campaign_id = id
HasAge(id)      == \E r \in Range(dim_age_group) : r.age_id = id
HasGender(id)   == \E r \in Range(dim_gender) : r.gender_id = id
HasRegion(id)   == \E r \in Range(dim_region) : r.region_id = id

\* fact tables without NOT NULL and FOREIGN KEY constraints
FactViolationUnconstrained(k, f) == ""

\* fact tables whose campaign_id column is nullable
FactViolationCampaignNullable(k, f) ==
    IF f.date_key = Null THEN "NOT NULL constraint failed: date_key"
    ELSE IF k = "demographics" /\ f.age_id = Null THEN "NOT NULL constraint failed: age_id"
    ELSE IF k = "demographics" /\ f.gender_id = Null THEN "NOT NULL constraint failed: gender_id"
    ELSE IF k = "regions" /\ f.region_id = Null THEN "NOT NULL constraint failed: region_id"
    ELSE ""

\* NOT NULL and FOREIGN KEY constraints of the fact tables: the message of
\* the first one a row violates, "" when it violates none
FactViolation(k, f) ==
    IF f.date_key = Null THEN "NOT NULL constraint failed: date_key"
    ELSE IF f.campaign_id = Null THEN "NOT NULL constraint failed: campaign_id"
    ELSE IF k = "demographics" /\ f.age_id = Null THEN "NOT NULL constraint failed: age_id"
    ELSE IF k = "demographics" /\ f.gender_id = Null THEN "NOT NULL constraint failed: gender_id"
    ELSE IF k = "regions" /\ f.region_id = Null THEN "NOT NULL constraint failed: region_id"
    ELSE IF \/ ~HasDate(f.date_key)
            \/ ~HasCampaign(f.campaign_id)
            \/ (k = "demographics" /\ (~HasAge(f.age_id) \/ ~HasGender(f.gender_id)))
            \/ (k = "regions" /\ ~HasRegion(f.region_id))
         THEN "FOREIGN KEY constraint failed"
    ELSE ""

\* a loop body that counts the row before its INSERT is awaited
InsertFactCountFirst(p) ==
    /\ pc[p] = "fact"
    /\ LET f == NewFact(p)
           violation == FactViolation(kind[p], f)
       IN IF violation = ""
          THEN /\ fact_ads_performance' =
                    IF kind[p] = "performance" THEN Append(fact_ads_performance, f)
                    ELSE fact_ads_performance
               /\ fact_ads_demographics' =
                    IF kind[p] = "demographics" THEN Append(fact_ads_demographics, f)
                    ELSE fact_ads_demographics
               /\ fact_ads_regions' =
                    IF kind[p] = "regions" THEN Append(fact_ads_regions, f)
                    ELSE fact_ads_regions
               /\ EndRow(p, processed[p] + 1, errors[p])
          ELSE /\ EndRow(p, processed[p] + 1,
                         Append(errors[p], [idx |-> i[p], row |-> Row(p), error |-> violation]))
               /\ UNCHANGED facts
    /\ UNCHANGED <<dims, insertAttempts, calls>>

\* an INSERT OR REPLACE at the grain (date_key, campaign_id): a fact row of
\* the same grain is overwritten in place
InsertFactUpsert(p) ==
    /\ pc[p] = "fact"
    /\ LET f == NewFact(p)
           violation == FactViolation(kind[p], f)
           Upsert(t) ==
               IF \E n \in DOMAIN t : t[n].date_key = f.date_key /\ t[n].campaign_id = f.campaign_id
               THEN [n \in DOMAIN t |->
                        IF t[n].date_key = f.date_key /\ t[n].campaign_id = f.campaign_id
                        THEN [f EXCEPT !.id = t[n].id] ELSE t[n]]
               ELSE Append(t, f)
       IN IF violation = ""
          THEN /\ fact_ads_performance' =
                    IF kind[p] = "performance" THEN Upsert(fact_ads_performance)
                    ELSE fact_ads_performance
               /\ fact_ads_demographics' =
                    IF kind[p] = "demographics" THEN Upsert(fact_ads_demographics)
                    ELSE fact_ads_demographics
               /\ fact_ads_regions' =
                    IF kind[p] = "regions" THEN Upsert(fact_ads_regions)
                    ELSE fact_ads_regions
               /\ EndRow(p, processed[p] + 1, errors[p])
          ELSE /\ CatchRow(p, violation)
               /\ UNCHANGED facts
    /\ UNCHANGED <<dims, insertAttempts, calls>>

\* a loop body that undoes the date row of a row whose INSERT was rejected
InsertFactUndoDate(p) ==
    /\ pc[p] = "fact"
    /\ LET f == NewFact(p)
           violation == FactViolation(kind[p], f)
       IN IF violation = ""
          THEN /\ fact_ads_performance' =
                    IF kind[p] = "performance" THEN Append(fact_ads_performance, f)
                    ELSE fact_ads_performance
               /\ fact_ads_demographics' =
                    IF kind[p] = "demographics" THEN Append(fact_ads_demographics, f)
                    ELSE fact_ads_demographics
               /\ fact_ads_regions' =
                    IF kind[p] = "regions" THEN Append(fact_ads_regions, f)
                    ELSE fact_ads_regions
               /\ EndRow(p, processed[p] + 1, errors[p])
               /\ UNCHANGED dim_date
          ELSE /\ CatchRow(p, violation)
               /\ dim_date' = SelectSeq(dim_date, LAMBDA r : r.date_key # loc[p].dateKey)
               /\ UNCHANGED facts
    /\ UNCHANGED <<dim_campaign, dim_age_group, dim_gender, dim_region,
                   insertAttempts, calls>>

\* INSERT INTO fact_ads_performance / fact_ads_demographics / fact_ads_regions,
\* then processed++ (or the catch clause)
InsertFact(p) ==
    /\ pc[p] = "fact"
    /\ LET f == NewFact(p)
           violation == FactViolation(kind[p], f)
       IN IF violation = ""
          THEN /\ fact_ads_performance' =
                    IF kind[p] = "performance" THEN Append(fact_ads_performance, f)
                    ELSE fact_ads_performance
               /\ fact_ads_demographics' =
                    IF kind[p] = "demographics" THEN Append(fact_ads_demographics, f)
                    ELSE fact_ads_demographics
               /\ fact_ads_regions' =
                    IF kind[p] = "regions" THEN Append(fact_ads_regions, f)
                    ELSE fact_ads_regions
               /\ EndRow(p, processed[p] + 1, errors[p])
          ELSE /\ CatchRow(p, violation)
               /\ UNCHANGED facts
    /\ UNCHANGED <<dims, insertAttempts, calls>>

\* a read handler (getOverview .. getProductDaily, healthCheck) up to its
\* first SELECT
BeginRead(p, op, params) ==
    /\ pc[p] = "idle"
    /\ kind' = [kind EXCEPT ![p] = op]
    /\ data' = [data EXCEPT ![p] = params]
    /\ pc' = [pc EXCEPT ![p] = "query"]
    /\ UNCHANGED <<store, i, loc, processed, errors, response, insertAttempts, calls>>

\* the body a read handler returns when all its statements succeeded
ReadResult(op) ==
    IF op = "health" THEN [database |-> JsonString("connected")]
    ELSE [results |-> JsonRows]

\* the body a read handler returns from its catch clause
ReadFailure(op) ==
    IF op = "health"
    THEN [database |-> JsonString("error"), error |-> JsonString("D1_ERROR")]
    ELSE [error |-> JsonString("D1_ERROR")]

\* a read handler whose statement also purges the regions facts
QueryPurge(p, ok) ==
    /\ pc[p] = "query"
    /\ IF ~ok
       THEN /\ response' = [response EXCEPT ![p] = jsonResponse(ReadFailure(kind[p]), 500)]
            /\ pc' = [pc EXCEPT ![p] = "done"]
            /\ UNCHANGED i
       ELSE IF i[p] + 1 = NumStatements(kind[p], data[p])
       THEN /\ response' = [response EXCEPT ![p] = jsonResponse(ReadResult(kind[p]), 200)]
            /\ pc' = [pc EXCEPT ![p] = "done"]
            /\ i' = [i EXCEPT ![p] = @ + 1]
       ELSE /\ i' = [i EXCEPT ![p] = @ + 1]
            /\ UNCHANGED <<pc, response>>
    /\ fact_ads_regions' = <<>>
    /\ UNCHANGED <<dims, fact_ads_performance, fact_ads_demographics>>
    /\ UNCHANGED <<kind, data, loc, processed, errors, insertAttempts, calls>>

\* one SELECT of a read handler: the store answers (ok) or the query fails
Query(p, ok) ==
    /\ pc[p] = "query"
    /\ IF ~ok
       THEN /\ response' = [response EXCEPT ![p] = jsonResponse(ReadFailure(kind[p]), 500)]
            /\ pc' = [pc EXCEPT ![p] = "done"]
            /\ UNCHANGED i
       ELSE IF i[p] + 1 = NumStatements(kind[p], data[p])
       THEN /\ response' = [response EXCEPT ![p] = jsonResponse(ReadResult(kind[p]), 200)]
            /\ pc' = [pc EXCEPT ![p] = "done"]
            /\ i' = [i EXCEPT ![p] = @ + 1]
       ELSE /\ i' = [i EXCEPT ![p] = @ + 1]
            /\ UNCHANGED <<pc, response>>
    /\ UNCHANGED <<store, kind, data, loc, processed, errors, insertAttempts, calls>>

\* ----------------------------------------------------------------- queries
\* the permutations of a finite set, as sequences
Perms(S) ==
    {q \in [1..Cardinality(S) -> S] : \A a, b \in DOMAIN q : a # b => q[a] # q[b]}

\* BINARY collation of texts: the order of the code points
CodeOrder == <<" ","+","-",".","/","0","1","2","3","4","5","6","7","8","9",":",
               "A","B","C","D","E","F","G","H","I","J","K","L","M",
               "N","O","P","Q","R","S","T","U","V","W","X","Y","Z","_",
               "a","b","c","d","e","f","g","h","i","j","k","l","m",
               "n","o","p","q","r","s","t","u","v","w","x","y","z","|",
               "Á","Ù","á","ù","Ễ","ễ","Ộ","ộ">>
CodeRank(c) == CHOOSE k \in DOMAIN CodeOrder : CodeOrder[k] = c
RECURSIVE TextBefore(_, _)
TextBefore(s, t) ==
    IF t = <<>> THEN FALSE
    ELSE IF s = <<>> THEN TRUE
    ELSE IF Head(s) # Head(t) THEN CodeRank(Head(s)) < CodeRank(Head(t))
    ELSE TextBefore(Tail(s), Tail(t))

RECURSIVE SumInts(_)
SumInts(ns) == IF ns = <<>> THEN 0 ELSE Head(ns) + SumInts(Tail(ns))
\* SUM(col): NULL over no rows
SqlSum(ns) == IF ns = <<>> THEN NullNum ELSE Num(SumInts(ns))
Column(rows, col) == [k \in DOMAIN rows |-> rows[k][col]]

\* a range that leaves out its upper bound
BetweenHalfOpen(F, lo, hi) ==
    IF lo \in {Null, NaN} \/ hi \in {Null, NaN} THEN <<>>
    ELSE SelectSeq(F, LAMBDA f : lo <= f.date_key /\ f.date_key < hi)

\* WHERE date_key BETWEEN ? AND ?: no row qualifies when a bound is NULL
Between(F, lo, hi) ==
    IF lo \in {Null, NaN} \/ hi \in {Null, NaN} THEN <<>>
    ELSE SelectSeq(F, LAMBDA f : lo <= f.date_key /\ f.date_key <= hi)

\* if (!startDate || !endDate): the 30 days that end on the day of the request
DefaultWindow(params) ==
    IF Falsy(params.startDate) \/ Falsy(params.endDate)
    THEN [startDate |-> ToISODate(TimeOf(params.today) - 30), endDate |-> params.today]
    ELSE [startDate |-> params.startDate, endDate |-> params.endDate]

\* currentQuery and prevQuery of getOverview over the facts F
OverviewQuery(F, lo, hi) ==
    LET rows == Between(F, lo, hi)
    IN TotalsRow(SqlSum(Column(rows, "amount_spent")),
                 SqlSum(Column(rows, "impressions")),
                 SqlSum(Column(rows, "results")))

OverviewBody(params, F) ==
    LET w == DefaultWindow(params)
        prev == getPreviousPeriod(w.startDate, w.endDate)
        current == OverviewQuery(F, getDateKey(w.startDate), getDateKey(w.endDate))
        previous == OverviewQuery(F, getDateKey(prev.startDate), getDateKey(prev.endDate))
    IN [kpis |-> OverviewKpis(current, previous, prev)]

\* JOIN dim_date d ON f.date_key = d.date_key: the facts with their d.full_date
JoinDate(F) ==
    LET joined == SelectSeq(F, LAMBDA f : SelectDate(f.date_key) # <<>>)
    IN [k \in DOMAIN joined |->
           [fact |-> joined[k], full_date |-> SelectDate(joined[k].date_key)[1].full_date]]

\* query of getDailyTrend: a row per day that has facts, ORDER BY d.full_date ASC
DailyQuery(F, lo, hi) ==
    LET rows == JoinDate(Between(F, lo, hi))
        days == {rows[k].full_date : k \in DOMAIN rows}
        Group(day) == SelectSeq(rows, LAMBDA r : r.full_date = day)
        Facts(day) == [k \in DOMAIN Group(day) |-> Group(day)[k].fact]
        order == CHOOSE q \in Perms(days) :
                     \A a, b \in DOMAIN q : a < b => TextBefore(q[a], q[b])
    IN [k \in DOMAIN order |->
           [full_date |-> order[k],
            spend |-> SqlSum(Column(Facts(order[k]), "amount_spent")),
            impressions |-> SqlSum(Column(Facts(order[k]), "impressions"))]]

DailyBody(params, F) ==
    LET w == DefaultWindow(params)
        prev == getPreviousPeriod(w.startDate, w.endDate)
    IN [current |-> JsonArray(DailyQuery(F, getDateKey(w.startDate), getDateKey(w.endDate))),
        comparison |->
            IF params.compare
            THEN JsonArray(DailyQuery(F, getDateKey(prev.startDate), getDateKey(prev.endDate)))
            ELSE JsonNull]

\* the facts of a query whose WHERE clause is built only when both dates are given
OptionalWindow(params, F) ==
    IF ~Falsy(params.startDate) /\ ~Falsy(params.endDate)
    THEN Between(F, getDateKey(params.startDate), getDateKey(params.endDate))
    ELSE F

\* params.get('limit') || fallback, as the LIMIT of a query
Limit(params, fallback) == IF FalsyNum(params.limit) THEN fallback ELSE params.limit
\* LIMIT n
Take(rows, n) == SubSeq(rows, 1, IF n < Len(rows) THEN n ELSE Len(rows))

RatLess(a, b) == a.num * b.den < b.num * a.den
\* ORDER BY col DESC over the rows S: every order the engine may return
\* (rows of equal col in either order)
OrderDesc(S, col) ==
    {q \in Perms(S) : \A a, b \in DOMAIN q : a < b => ~RatLess(q[a][col], q[b][col])}

\* JOIN dim_campaign c ON f.campaign_id = c.campaign_id
JoinCampaign(F) ==
    LET Of(f) == SelectSeq(dim_campaign, LAMBDA c : c.campaign_id = f.campaign_id)
        joined == SelectSeq(F, LAMBDA f : Of(f) # <<>>)
    IN [k \in DOMAIN joined |->
           [fact |-> joined[k], campaign_name |-> Of(joined[k])[1].campaign_name,
            objective |-> Of(joined[k])[1].objective]]

FactsOf(rows) == [k \in DOMAIN rows |-> rows[k].fact]
\* the five aggregates of the performance queries over a group of joined rows
PerfTotals(rows) ==
    TotalsRow(SqlSum(Column(FactsOf(rows), "amount_spent")),
              SqlSum(Column(FactsOf(rows), "impressions")),
              SqlSum(Column(FactsOf(rows), "results")))

\* query of getTopCampaigns: GROUP BY c.campaign_name ORDER BY total_spend DESC
CampaignGroups(F) ==
    LET rows == JoinCampaign(F)
        names == {rows[k].campaign_name : k \in DOMAIN rows}
        Group(n) == SelectSeq(rows, LAMBDA r : r.campaign_name = n)
    IN {[campaign_name |-> n, objective |-> Group(n)[1].objective] @@ PerfTotals(Group(n)) :
           n \in names}

CampaignsBodies(params, F) ==
    {JsonArray(Take(q, Limit(params, 5))) :
        q \in OrderDesc(CampaignGroups(OptionalWindow(params, F)), "total_spend")}

\* LIKE '%token%': containment that ignores the case of the letters A..Z
LikeFold(s) ==
    [k \in DOMAIN s |->
        IF \E u \in 1..26 : LowerLetters[u] = s[k]
        THEN UpperLetters[CHOOSE u \in 1..26 : LowerLetters[u] = s[k]]
        ELSE s[k]]
Like(s, token) == Includes(LikeFold(s), LikeFold(token))

tokFB == <<"F","B">>
tokFacebook == <<"F","a","c","e","b","o","o","k">>
tokIG == <<"I","G">>
tokInstagram == <<"I","n","s","t","a","g","r","a","m">>

\* a channel expression that tests the Instagram tokens first
CampaignChannelInstagramFirst(name) ==
    IF Like(name, tokIG) \/ Like(name, tokInstagram) THEN "Instagram"
    ELSE IF Like(name, tokFB) \/ Like(name, tokFacebook) THEN "Facebook"
    ELSE "Other"

\* CASE ... END as channel of the per-campaign query of getBreakdown
CampaignChannel(name) ==
    IF Like(name, tokFB) \/ Like(name, tokFacebook) THEN "Facebook"
    ELSE IF Like(name, tokIG) \/ Like(name, tokInstagram) THEN "Instagram"
    ELSE "Other"

\* CASE ... END as channel of channelQuery
GroupChannel(name) ==
    IF Like(name, tokFB) \/ Like(name, tokFacebook) THEN "Facebook"
    ELSE IF Like(name, tokIG) \/ Like(name, tokInstagram) THEN "Instagram"
    ELSE "Other"

\* query of getBreakdown: GROUP BY c.campaign_name, c.objective
BreakdownCampaignGroups(F) ==
    LET rows == JoinCampaign(F)
        keys == {<<rows[k].campaign_name, rows[k].objective>> : k \in DOMAIN rows}
        Group(key) == SelectSeq(rows, LAMBDA r : r.campaign_name = key[1] /\ r.objective = key[2])
    IN {[campaign_name |-> key[1], objective |-> key[2], channel |-> CampaignChannel(key[1])]
            @@ PerfTotals(Group(key)) : key \in keys}

\* channelQuery of getBreakdown: GROUP BY channel
BreakdownChannelGroups(F) ==
    LET rows == JoinCampaign(F)
        channels == {GroupChannel(rows[k].campaign_name) : k \in DOMAIN rows}
        Group(ch) == SelectSeq(rows, LAMBDA r : GroupChannel(r.campaign_name) = ch)
    IN {[channel |-> ch] @@ PerfTotals(Group(ch)) : ch \in channels}

\* objectiveQuery of getBreakdown: GROUP BY c.objective
BreakdownObjectiveGroups(F) ==
    LET rows == JoinCampaign(F)
        objectives == {rows[k].objective : k \in DOMAIN rows}
        Group(o) == SelectSeq(rows, LAMBDA r : r.objective = o)
    IN {[objective |-> o] @@ PerfTotals(Group(o)) : o \in objectives}

BreakdownBodies(params, F) ==
    LET w == DefaultWindow(params)
        rows == Between(F, getDateKey(w.startDate), getDateKey(w.endDate))
    IN {[by_campaign |-> JsonArray(q1), by_channel |-> JsonArray(q2),
         by_objective |-> JsonArray(q3)] :
            q1 \in OrderDesc(BreakdownCampaignGroups(rows), "total_spend"),
            q2 \in OrderDesc(BreakdownChannelGroups(rows), "total_spend"),
            q3 \in OrderDesc(BreakdownObjectiveGroups(rows), "total_spend")}

\* JOIN dim_age_group / dim_gender / dim_region on the key of the fact
JoinAge(rows) ==
    LET Of(r) == SelectSeq(dim_age_group, LAMBDA a : a.age_id = r.fact.age_id)
        joined == SelectSeq(rows, LAMBDA r : Of(r) # <<>>)
    IN [k \in DOMAIN joined |-> [age_range |-> Of(joined[k])[1].age_range] @@ joined[k]]
JoinGender(rows) ==
    LET Of(r) == SelectSeq(dim_gender, LAMBDA g : g.gender_id = r.fact.gender_id)
        joined == SelectSeq(rows, LAMBDA r : Of(r) # <<>>)
    IN [k \in DOMAIN joined |->
           [gender_id |-> Of(joined[k])[1].gender_id, gender |-> Of(joined[k])[1].gender]
               @@ joined[k]]
JoinRegion(rows) ==
    LET Of(r) == SelectSeq(dim_region, LAMBDA g : g.region_id = r.fact.region_id)
        joined == SelectSeq(rows, LAMBDA r : Of(r) # <<>>)
    IN [k \in DOMAIN joined |-> [region_name |-> Of(joined[k])[1].region_name] @@ joined[k]]
FromFacts(F) == [k \in DOMAIN F |-> [fact |-> F[k]]]

\* SUM(f.spend) as spend, SUM(f.impressions) as impressions
SpendTotals(rows) ==
    [spend |-> SqlSum(Column(FactsOf(rows), "spend")),
     impressions |-> SqlSum(Column(FactsOf(rows), "impressions"))]

\* queryAge: GROUP BY a.age_range ORDER BY a.age_range ASC
AgeQuery(F) ==
    LET rows == JoinAge(FromFacts(F))
        ages == {rows[k].age_range : k \in DOMAIN rows}
        Group(a) == SelectSeq(rows, LAMBDA r : r.age_range = a)
        order == CHOOSE q \in Perms(ages) :
                     \A a, b \in DOMAIN q : a < b => TextBefore(q[a], q[b])
    IN [k \in DOMAIN order |-> [age_range |-> order[k]] @@ SpendTotals(Group(order[k]))]

\* queryGender: GROUP BY g.gender_id, g.gender, in any order
GenderQueries(F) ==
    LET rows == JoinGender(FromFacts(F))
        keys == {<<rows[k].gender_id, rows[k].gender>> : k \in DOMAIN rows}
        Group(key) == SelectSeq(rows, LAMBDA r : r.gender_id = key[1])
    IN {[k \in DOMAIN q |-> [gender |-> q[k][2]] @@ SpendTotals(Group(q[k]))] :
           q \in Perms(keys)}

\* queryAgeGender: GROUP BY a.age_range, g.gender ORDER BY a.age_range ASC, g.gender ASC
AgeGenderQuery(F) ==
    LET rows == JoinGender(JoinAge(FromFacts(F)))
        keys == {<<rows[k].age_range, rows[k].gender>> : k \in DOMAIN rows}
        Group(key) == SelectSeq(rows, LAMBDA r : r.age_range = key[1] /\ r.gender = key[2])
        Before(x, y) == TextBefore(x[1], y[1]) \/ (x[1] = y[1] /\ TextBefore(x[2], y[2]))
        order == CHOOSE q \in Perms(keys) : \A a, b \in DOMAIN q : a < b => Before(q[a], q[b])
    IN [k \in DOMAIN order |->
           [age_range |-> order[k][1], gender |-> order[k][2]] @@ SpendTotals(Group(order[k]))]

DemographicsBodies(params, F) ==
    LET rows == OptionalWindow(params, F)
    IN {[by_age |-> JsonArray(AgeQuery(rows)), by_gender |-> JsonArray(q),
         by_age_gender |-> JsonArray(AgeGenderQuery(rows))] : q \in GenderQueries(rows)}

\* query of getRegions: GROUP BY r.region_name ORDER BY spend DESC LIMIT ?
RegionGroups(F) ==
    LET rows == JoinRegion(FromFacts(F))
        names == {rows[k].region_name : k \in DOMAIN rows}
        Group(n) == SelectSeq(rows, LAMBDA r : r.region_name = n)
    IN {[region_name |-> n, spend |-> SqlSum(Column(FactsOf(Group(n)), "spend"))] : n \in names}

RegionsBodies(params, F) ==
    {JsonArray(Take(q, Limit(params, 10))) :
        q \in OrderDesc(RegionGroups(OptionalWindow(params, F)), "spend")}

tokMess == <<"M","e","s","s">>
tokImpression == <<"I","m","p","r","e","s","s","i","o","n">>
tokVisit == <<"V","i","s","i","t">>

\* the conditions of the WHERE clauses of getTopAds and getTopProducts
IsFacebook(r)   == Like(r.campaign_name, tokFB) \/ Like(r.campaign_name, tokFacebook)
IsInstagram(r)  == Like(r.campaign_name, tokIG) \/ Like(r.campaign_name, tokInstagram)
IsMessage(r)    == r.objective = "Message" \/ Like(r.campaign_name, tokMess)
IsImpression(r) == r.objective = "Impression" \/ Like(r.campaign_name, tokImpression)
IsVisit(r)      == r.objective = "Visit" \/ Like(r.campaign_name, tokVisit)
\* f.ad_name IS NOT NULL AND f.ad_name != ''
HasAdName(r)    == r.fact.ad_name # NullText /\ r.fact.ad_name # Empty

\* SELECT f.ad_name, SUM(f.<col>) as <alias>, SUM(f.amount_spent) as total_spend
\* ... GROUP BY f.ad_name, over the joined rows that passed the WHERE clause
AdGroups(rows, col, alias) ==
    LET ads == {rows[k].fact.ad_name : k \in DOMAIN rows}
        Group(a) == SelectSeq(rows, LAMBDA r : r.fact.ad_name = a)
    IN {(alias :> SqlSum(Column(FactsOf(Group(a)), col)))
           @@ [ad_name |-> a, total_spend |-> SqlSum(Column(FactsOf(Group(a)), "amount_spent"))] :
           a \in ads}

\* a query of getTopAds: ORDER BY <alias> DESC LIMIT ?, with c.campaign_name
\* taken from any row of the group
TopAdsQueries(rows, col, alias, limit) ==
    LET ads == {rows[k].fact.ad_name : k \in DOMAIN rows}
        names == {rows[k].campaign_name : k \in DOMAIN rows}
        NamesOf(a) == {rows[k].campaign_name : k \in {j \in DOMAIN rows : rows[j].fact.ad_name = a}}
        picks == {f \in [ads -> names] : \A a \in ads : f[a] \in NamesOf(a)}
    IN {Take([k \in DOMAIN q |-> [campaign_name |-> pick[q[k].ad_name]] @@ q[k]], limit) :
           q \in OrderDesc(AdGroups(rows, col, alias), alias), pick \in picks}

TopAdsBodies(params, F) ==
    LET w == DefaultWindow(params)
        rows == JoinCampaign(Between(F, getDateKey(w.startDate), getDateKey(w.endDate)))
        limit == Limit(params, 3)
        msgFB == SelectSeq(rows, LAMBDA r : IsFacebook(r) /\ IsMessage(r) /\ HasAdName(r))
        msgIG == SelectSeq(rows, LAMBDA r : IsInstagram(r) /\ IsMessage(r) /\ HasAdName(r))
        impressions == SelectSeq(rows, LAMBDA r : IsImpression(r) /\ HasAdName(r))
        visitIG == SelectSeq(rows, LAMBDA r : IsVisit(r) /\ HasAdName(r))
    IN {[top_messages_fb |-> JsonArray(q1), top_messages_ig |-> JsonArray(q2),
         top_impressions |-> JsonArray(q3), top_visit_ig |-> JsonArray(q4)] :
            q1 \in TopAdsQueries(msgFB, "results", "total_results", limit),
            q2 \in TopAdsQueries(msgIG, "results", "total_results", limit),
            q3 \in TopAdsQueries(impressions, "impressions", "total_impressions", limit),
            q4 \in TopAdsQueries(visitIG, "results", "total_results", limit)}

\* productMap of aggregateByProduct after the loop over its rows, as the sequence
\* of its values in insertion order
RECURSIVE ProductMap(_, _, _)
ProductMap(rows, valueKey, acc) ==
    IF rows = <<>> THEN acc
    ELSE LET row == Head(rows)
             product == ExtractProductLine(productMapping, row.ad_name)
             at == {k \in DOMAIN acc : acc[k].product_line = product}
             Add(e) == [e EXCEPT !.total = RatAdd(@, safe(row[valueKey])),
                                 !.spend = RatAdd(@, safe(row.total_spend))]
             fresh == [product_line |-> product, total |-> Num(0), spend |-> Num(0)]
         IN ProductMap(Tail(rows), valueKey,
                       IF at = {} THEN Append(acc, Add(fresh))
                       ELSE [k \in DOMAIN acc |-> IF k \in at THEN Add(acc[k]) ELSE acc[k]])

\* Array.prototype.sort((a, b) => b.total - a.total): a stable sort
RECURSIVE SortByTotalDesc(_)
SortByTotalDesc(entries) ==
    IF entries = <<>> THEN <<>>
    ELSE LET sorted == SortByTotalDesc(SubSeq(entries, 1, Len(entries) - 1))
             x == entries[Len(entries)]
             ahead == {k \in DOMAIN sorted : ~RatLess(sorted[k].total, x.total)}
             n == IF ahead = {} THEN 0 ELSE CHOOSE k \in ahead : \A j \in ahead : j <= k
         IN SubSeq(sorted, 1, n) \o <<x>> \o SubSeq(sorted, n + 1, Len(sorted))

\* an aggregation that slices without sorting
aggregateByProductUnsorted(rows, valueKey, limit) ==
    Take(ProductMap(rows, valueKey, <<>>), limit)

aggregateByProduct(rows, valueKey, limit) ==
    Take(SortByTotalDesc(ProductMap(rows, valueKey, <<>>)), limit)

\* productTotals of getProductDaily after the loop over result.results, as
\* the sequence of its entries in insertion order
RECURSIVE ProductTotals(_, _)
ProductTotals(rows, acc) ==
    IF rows = <<>> THEN acc
    ELSE LET row == Head(rows)
             product == ExtractProductLine(productMappingDaily, row.ad_name)
             at == {k \in DOMAIN acc : acc[k].product_line = product}
             Add(e) == [e EXCEPT !.total = RatAdd(safe(@), safe(row.total_results))]
             fresh == [product_line |-> product, total |-> Num(0)]
         IN ProductTotals(Tail(rows),
                          IF at = {} THEN Append(acc, Add(fresh))
                          ELSE [k \in DOMAIN acc |-> IF k \in at THEN Add(acc[k]) ELSE acc[k]])

\* const topProducts of getProductDaily: entries sorted by total, descending
\* (a stable sort), sliced to limit and mapped to the names
topProducts(rows, limit) ==
    LET top == Take(SortByTotalDesc(ProductTotals(rows, <<>>)), limit)
    IN [k \in DOMAIN top |-> top[k].product_line]

TopProductsBodies(params, F) ==
    LET w == DefaultWindow(params)
        rows == JoinCampaign(Between(F, getDateKey(w.startDate), getDateKey(w.endDate)))
        limit == Limit(params, 5)
        messages == SelectSeq(rows, LAMBDA r : IsMessage(r) /\ HasAdName(r))
        impressions == SelectSeq(rows, LAMBDA r : IsImpression(r) /\ HasAdName(r))
        visits == SelectSeq(rows, LAMBDA r : IsVisit(r) /\ HasAdName(r))
    IN {[top_message_products |-> JsonArray(aggregateByProduct(q1, "total_results", limit)),
         top_impression_products |->
             JsonArray(aggregateByProduct(q2, "total_impressions", limit)),
         top_visit_products |-> JsonArray(aggregateByProduct(q3, "total_results", limit))] :
            q1 \in OrderDesc(AdGroups(messages, "results", "total_results"), "total_results"),
            q2 \in OrderDesc(AdGroups(impressions, "impressions", "total_impressions"),
                             "total_impressions"),
            q3 \in OrderDesc(AdGroups(visits, "results", "total_results"), "total_results")}

\* the columns of dim_campaign
CampaignColumns == {"campaign_id", "campaign_name", "platform", "objective", "created_at"}
\* the columns of dim_campaign the query of getProductDaily refers to
ProductDailyColumns == {"campaign_id", "channel", "objective", "campaign_name"}

\* a read handler from its first statement to its return: it returns
\* jsonResponse of one of the bodies its queries can produce, or a statement
\* fails and its catch clause returns
Serve(p, op, bodies) ==
    /\ pc[p] = "query"
    /\ kind[p] = op
    /\ \/ \E body \in bodies :
             response' = [response EXCEPT ![p] = jsonResponse(body, 200)]
       \/ response' = [response EXCEPT ![p] = jsonResponse(ReadFailure(op), 500)]
    /\ pc' = [pc EXCEPT ![p] = "done"]
    /\ UNCHANGED <<store, kind, data, i, loc, processed, errors, insertAttempts, calls>>

getOverview(p)     == Serve(p, "overview", {OverviewBody(data[p], fact_ads_performance)})
getDailyTrend(p)   == Serve(p, "daily", {DailyBody(data[p], fact_ads_performance)})
getTopCampaigns(p) == Serve(p, "campaigns", CampaignsBodies(data[p], fact_ads_performance))
getDemographics(p) ==
    Serve(p, "demographics_read", DemographicsBodies(data[p], fact_ads_demographics))
getRegions(p)      == Serve(p, "regions_read", RegionsBodies(data[p], fact_ads_regions))
getBreakdown(p)    == Serve(p, "breakdown", BreakdownBodies(data[p], fact_ads_performance))
getTopAds(p)       == Serve(p, "top-ads", TopAdsBodies(data[p], fact_ads_performance))
getTopProducts(p)  == Serve(p, "top-products", TopProductsBodies(data[p], fact_ads_performance))
healthCheck(p)     == Serve(p, "health", {ReadResult("health")})

\* getProductDaily: its query names c.channel, a column dim_campaign does not
\* have, so the statement fails and the catch clause returns; the statements
\* after the query are not reached
getProductDaily(p) ==
    /\ pc[p] = "query"
    /\ kind[p] = "product-daily"
    /\ ~(ProductDailyColumns \subseteq CampaignColumns)
    /\ response' = [response EXCEPT ![p] =
            jsonResponse([error |-> JsonString("no such column: c.channel")], 500)]
    /\ pc' = [pc EXCEPT ![p] = "done"]
    /\ UNCHANGED <<store, kind, data, i, loc, processed, errors, insertAttempts, calls>>

\* fetch on a request no route and no page matches; a body that was not
\* built by jsonResponse is kept whole in the field body
fetchNotFound(p) ==
    /\ pc[p] = "idle"
    /\ kind' = [kind EXCEPT ![p] = "unknown"]
    /\ response' = [response EXCEPT ![p] =
            [status |-> 404, body |-> [error |-> JsonString("Not Found")]]]
    /\ pc' = [pc EXCEPT ![p] = "done"]
    /\ UNCHANGED <<store, data, i, loc, processed, errors, insertAttempts, calls>>

\* fetch on an ingest request whose body is no JSON: request.json() throws
\* out of the handler and the catch clause of fetch answers
fetchCatch(p, k) ==
    /\ pc[p] = "idle"
    /\ kind' = [kind EXCEPT ![p] = k]
    /\ response' = [response EXCEPT ![p] =
            [status |-> 500,
             body |-> [error |-> JsonString("Internal Server Error"),
                       message |-> JsonString("Unexpected token")]]]
    /\ pc' = [pc EXCEPT ![p] = "done"]
    /\ UNCHANGED <<store, data, i, loc, processed, errors, insertAttempts, calls>>

\* a call of a helper function of the worker: the request is the call, data
\* its arguments and response the value returned
Call(p, fn, args, ret) ==
    /\ pc[p] = "idle"
    /\ kind' = [kind EXCEPT ![p] = fn]
    /\ data' = [data EXCEPT ![p] = args]
    /\ response' = [response EXCEPT ![p] = [returned |-> ret]]
    /\ pc' = [pc EXCEPT ![p] = "done"]
    /\ UNCHANGED <<store, i, loc, processed, errors, insertAttempts, calls>>

CallGetPreviousPeriod(p) ==
    \E w \in Periods :
        Call(p, "getPreviousPeriod", w, getPreviousPeriod(w.startDate, w.endDate))

\* arguments of growth: results of safe(), and an absent baseline
GrowthArgs == {NullNum, Rat(1, 3), Rat(15, 2)} \cup {Num(n) : n \in {-100, 0, 50, 100, 150}}

CallGrowth(p) ==
    \E curr \in GrowthArgs \ {NullNum}, prev \in GrowthArgs :
        Call(p, "growth", [curr |-> curr, prev |-> prev], growth(curr, prev))

\* rows of the overview queries: of a period without facts, and of two others
OverviewRows ==
    {TotalsRow(NullNum, NullNum, NullNum),
     TotalsRow(Num(100), Num(1000), Num(10)),
     TotalsRow(Num(150), Num(2000), Num(0))}

\* getOverview from the rows of its two queries on
CallOverviewKpis(p) ==
    \E current \in OverviewRows, previous \in OverviewRows :
        Call(p, "kpis", [current |-> current, previous |-> previous],
             OverviewKpis(current, previous, getPreviousPeriod(d1, d2)))

\* extractProductLine of getTopProducts and of getProductDaily
CallExtractProductLine(p) ==
    \E adName \in AdNames :
        \/ Call(p, "getTopProducts.extractProductLine", adName,
                ExtractProductLine(productMapping, adName))
        \/ Call(p, "getProductDaily.extractProductLine", adName,
                ExtractProductLine(productMappingDaily, adName))

\* result sets of the product queries: rows of distinct ad names (GROUP BY
\* f.ad_name), of distinct days and ad names (GROUP BY d.full_date, f.ad_name)
ResultAds == {adDirtyMilk, adMatchaMilk, adRandom, adExtrait}
ResultValues == {Num(5), Num(10)}
AdResults(valueKey) ==
    {q \in SeqsUpTo({(valueKey :> v) @@ [ad_name |-> a, total_spend |-> Num(1)] :
                        a \in ResultAds, v \in ResultValues}, MaxResultRows) :
        \A a, b \in DOMAIN q : a # b => q[a].ad_name # q[b].ad_name}
DailyResults ==
    {q \in SeqsUpTo({[full_date |-> d, ad_name |-> a, total_results |-> v] :
                        d \in {d1, d2}, a \in {adDirtyMilk, adRandom},
                        v \in ResultValues}, MaxResultRows) :
        \A a, b \in DOMAIN q :
            a # b => <<q[a].full_date, q[a].ad_name>> # <<q[b].full_date, q[b].ad_name>>}

CallAggregateByProduct(p) ==
    \E valueKey \in {"total_results", "total_impressions"} :
        \E rows \in AdResults(valueKey), limit \in 1..MaxResultRows :
            Call(p, "aggregateByProduct",
                 [rows |-> rows, valueKey |-> valueKey, limit |-> limit],
                 aggregateByProduct(rows, valueKey, limit))

CallTopProducts(p) ==
    \E rows \in DailyResults, limit \in 1..MaxResultRows :
        Call(p, "topProducts", [rows |-> rows, limit |-> limit], topProducts(rows, limit))

\* ------------------------------------------------------------ specification
\* requests are numbered in the order they arrive
Arrives(p) == IF p = 1 THEN TRUE ELSE pc[p - 1] # "idle"
\* no other request is being served
Quiet(p) == \A q \in Requests \ {p} : pc[q] \in {"idle", "done"}

\* a statement of an ingest handler
IngestStep(p) ==
    \/ getOrCreateCampaign(p)
    \/ InsertCampaign(p)
    \/ getOrCreateDate(p)
    \/ InsertDate(p)
    \/ getOrCreateAge(p)
    \/ InsertAge(p)
    \/ getOrCreateGender(p)
    \/ InsertGender(p)
    \/ getOrCreateRegion(p)
    \/ InsertRegion(p)
    \/ InsertFact(p)

Step(p) ==
    \/ IngestStep(p)
    \/ \E ok \in BOOLEAN : Query(p, ok)

\* requests served concurrently: their statements interleave
Next ==
    \E p \in Requests :
        \/ /\ Arrives(p)
           /\ \/ \E k \in IngestKinds : \E body \in RaceBodies(k) : BeginIngest(p, k, body)
              \/ \E op \in ReadOps : \E params \in ReadParams(op) : BeginRead(p, op, params)
        \/ Step(p)

Spec == Init /\ [][Next]_vars

\* ingestion requests served one at a time
NextSeq ==
    \E p \in Requests :
        /\ Quiet(p)
        /\ \/ /\ Arrives(p)
              /\ \E k \in IngestKinds : \E body \in SeqBodies(k) : BeginIngest(p, k, body)
           \/ Step(p)

SpecSeq == Init /\ [][NextSeq]_vars

\* demographics batches served one at a time
NextDemo ==
    \E p \in Requests :
        /\ Quiet(p)
        /\ \/ /\ Arrives(p)
              /\ \E body \in CaseBodies : BeginIngest(p, "demographics", body)
           \/ Step(p)

SpecDemo == Init /\ [][NextDemo]_vars

\* regions batches served one at a time
NextDerive ==
    \E p \in Requests :
        /\ Quiet(p)
        /\ \/ /\ Arrives(p)
              /\ \E body \in DeriveBodies : BeginIngest(p, "regions", body)
           \/ IngestStep(p)

SpecDerive == Init /\ [][NextDerive]_vars

\* calls of the helper functions, one after the other
NextFn ==
    \E p \in Requests :
        \/ CallGetPreviousPeriod(p)
        \/ CallGrowth(p)
        \/ CallOverviewKpis(p)
        \/ CallExtractProductLine(p)

SpecFn == Init /\ [][NextFn]_vars

\* a call of the product aggregation of getTopProducts or of getProductDaily
NextTop ==
    \E p \in Requests :
        /\ p = 1
        /\ pc[p] = "idle"
        /\ \/ CallAggregateByProduct(p)
           \/ CallTopProducts(p)

SpecTop == Init /\ [][NextTop]_vars

\* a batch is ingested, then a query is served with the rows the store holds
NextRead ==
    \E p \in Requests :
        /\ Quiet(p)
        /\ \/ /\ Arrives(p)
              /\ p = 1
              /\ \E k \in IngestKinds : \E body \in QueryBodies(k) : BeginIngest(p, k, body)
           \/ /\ Arrives(p)
              /\ \E op \in ReadOps : \E params \in QueryParams(op) : BeginRead(p, op, params)
           \/ /\ Arrives(p)
              /\ \/ fetchNotFound(p)
                 \/ \E k \in IngestKinds : fetchCatch(p, k)
           \/ IngestStep(p)
           \/ getOverview(p)
           \/ getDailyTrend(p)
           \/ getTopCampaigns(p)
           \/ getDemographics(p)
           \/ getRegions(p)
           \/ getBreakdown(p)
           \/ getTopAds(p)
           \/ getTopProducts(p)
           \/ getProductDaily(p)
           \/ healthCheck(p)

SpecRead == Init /\ [][NextRead]_vars

\* ------------------------------------------------------------- properties
FactTable(k) ==
    CASE k = "performance"  -> fact_ads_performance
      [] k = "demographics" -> fact_ads_demographics
      [] k = "regions"      -> fact_ads_regions

AllFacts == Range(fact_ads_performance) \cup Range(fact_ads_demographics)
            \cup Range(fact_ads_regions)

\* the requests that entered the row loop of an ingest handler
Batches == {p \in Requests : kind[p] \in IngestKinds /\ data[p].isArray}
NumRows(p) == Len(data[p].rows)
\* the rows of a batch whose loop body is over
RowsOver(p) == IF pc[p] = "done" THEN 1..NumRows(p) ELSE 1..(i[p] - 1)
\* payload positions of the rows of batch p that became fact rows / errors
FactIdx(p)  == {f.src[2] : f \in {g \in Range(FactTable(kind[p])) : g.src[1] = p}}
ErrorIdx(p) == {errors[p][e].idx : e \in DOMAIN errors[p]}
FactsFrom(p) == {f \in AllFacts : f.src[1] = p}

CampaignCalls == {c \in calls : c.fn = "getOrCreateCampaign" /\ ~Falsy(c.arg)}

\* C1: in requests served one at a time, starting from an empty campaign
\* dimension, all resolves of one non-empty campaign name return the same
\* surrogate key and exactly one INSERT into dim_campaign was executed for
\* that name, however many times it was resolved.
C1_CampaignIdempotent ==
    \A c \in CampaignCalls :
        /\ \A c2 \in CampaignCalls : c2.arg = c.arg => c2.ret = c.ret
        /\ c.ret # Null
        /\ CopiesIn(c.arg, insertAttempts["dim_campaign"]) = 1

\* a name was resolved by creation and again by lookup, and another name too
C1_Witness ==
    /\ \E c \in CampaignCalls : c.stmts = 2 /\ c.arg = cA
    /\ \E c \in CampaignCalls : c.stmts = 1 /\ c.arg = cA
    /\ \E c \in CampaignCalls : c.arg = cB

\* C2: at every point of every batch, under any interleaving, each row whose
\* loop body is over is either a fact row added by this batch or exactly one
\* entry of errors with its message, never both; processed counts the fact
\* rows this batch added; and when the handler has returned all N rows were
\* attempted, so processed + |errors| = N.
C2_RowAccounting ==
    \A p \in Batches :
        /\ FactIdx(p) \cup ErrorIdx(p) = RowsOver(p)
        /\ FactIdx(p) \cap ErrorIdx(p) = {}
        /\ Cardinality(ErrorIdx(p)) = Len(errors[p])
        /\ \A e \in DOMAIN errors[p] :
              /\ errors[p][e].error # ""
              /\ errors[p][e].row = data[p].rows[errors[p][e].idx]
        /\ processed[p] = Cardinality(FactsFrom(p))
        /\ Cardinality(FactsFrom(p)) = Cardinality(FactIdx(p))
        /\ pc[p] = "done" =>
              /\ processed[p] + Len(errors[p]) = NumRows(p)
              /\ response[p].data.processed = JsonNumber(processed[p])

\* a batch whose first row failed and whose later row was inserted
C2_Witness ==
    \E p \in Batches :
        /\ pc[p] = "done"
        /\ NumRows(p) = 2
        /\ ErrorIdx(p) = {1}
        /\ FactIdx(p) = {2}

\* the natural-key fields an ingest handler of kind k resolves are all present
ValidRow(k, row) ==
    /\ ~Falsy(row.Campaign)
    /\ ~Falsy(row.Date)
    /\ k = "demographics" => ~Falsy(row.Age) /\ ~Falsy(row.Gender)
    /\ k = "regions" => ~Falsy(row.Region)

\* C3: a batch of N rows served alone, in which exactly row k has a missing
\* or empty Campaign and every other row is valid, ends with processed =
\* N - 1 and exactly one entry of errors, which is row k; every other row is
\* a fact row.
C3_OneInvalidCampaign ==
    \A p \in Batches :
        pc[p] = "done" =>
            \A k \in 1..NumRows(p) :
                (/\ Falsy(data[p].rows[k].Campaign)
                 /\ \A j \in 1..NumRows(p) \ {k} : ValidRow(kind[p], data[p].rows[j]))
                => /\ processed[p] = NumRows(p) - 1
                   /\ Len(errors[p]) = 1
                   /\ errors[p][1].idx = k
                   /\ errors[p][1].row = data[p].rows[k]
                   /\ FactIdx(p) = (1..NumRows(p)) \ {k}

\* a finished batch of two rows whose second row only lacks its campaign
C3_Witness ==
    \E p \in Batches :
        /\ pc[p] = "done"
        /\ NumRows(p) = 2
        /\ Falsy(data[p].rows[2].Campaign)
        /\ ValidRow(kind[p], data[p].rows[1])
        /\ processed[p] = 1

\* C4: the step by which an ingest handler takes a body that is no array
\* ends the request with a 400 error result and leaves every dimension and
\* fact table as it was.
C4_NonArrayRejected ==
    [][\A p \in Requests :
          (/\ pc[p] = "idle"
           /\ pc'[p] # "idle"
           /\ kind'[p] \in IngestKinds
           /\ ~data'[p].isArray)
          => /\ store' = store
             /\ pc'[p] = "done"
             /\ response'[p].status = 400
             /\ ~response'[p].success
             /\ DOMAIN response'[p].data = {"error"}]_vars

\* a rejected body while the store already holds facts
C4_Witness ==
    \E p \in Requests :
        /\ kind[p] \in IngestKinds
        /\ ~data[p].isArray
        /\ pc[p] = "done"
        /\ response[p].status = 400
        /\ AllFacts # {}

\* C5 as claimed: the result of a finished batch carries a non-empty errors
\* list when a row failed and has no errors property when none failed.
C5_ErrorsOmittedWhenNone ==
    \A p \in Batches :
        pc[p] = "done" =>
            /\ Len(errors[p]) > 0 =>
                  /\ "errors" \in DOMAIN response[p].data
                  /\ response[p].data.errors = JsonArray(errors[p])
            /\ Len(errors[p]) = 0 => "errors" \notin DOMAIN response[p].data

\* C5 as the code has it: the result of a finished batch carries a
\* non-empty errors list when a row failed, and an errors property whose
\* value is null (present, not omitted) when none failed.
C5_ErrorsNullWhenNone ==
    \A p \in Batches :
        pc[p] = "done" =>
            /\ "errors" \in DOMAIN response[p].data
            /\ Len(errors[p]) > 0 =>
                  /\ response[p].data.errors = JsonArray(errors[p])
                  /\ response[p].data.errors.items # <<>>
            /\ Len(errors[p]) = 0 => response[p].data.errors = JsonNull

\* a finished batch all of whose rows were inserted
C5_Witness ==
    \E p \in Batches :
        /\ pc[p] = "done"
        /\ NumRows(p) >= 1
        /\ Len(errors[p]) = 0
        /\ processed[p] = NumRows(p)

\* C6: under any interleaving of the lookups and inserts of concurrent
\* batches, each dimension table holds at most one row per natural key (and
\* per surrogate key).
C6_NaturalKeysUnique ==
    /\ \A a, b \in DOMAIN dim_campaign :
          (dim_campaign[a].campaign_name = dim_campaign[b].campaign_name
           \/ dim_campaign[a].campaign_id = dim_campaign[b].campaign_id) => a = b
    /\ \A a, b \in DOMAIN dim_date :
          (dim_date[a].date_key = dim_date[b].date_key
           \/ dim_date[a].full_date = dim_date[b].full_date) => a = b
    /\ \A a, b \in DOMAIN dim_age_group :
          (dim_age_group[a].age_range = dim_age_group[b].age_range
           \/ dim_age_group[a].age_id = dim_age_group[b].age_id) => a = b
    /\ \A a, b \in DOMAIN dim_gender :
          (dim_gender[a].gender = dim_gender[b].gender
           \/ dim_gender[a].gender_id = dim_gender[b].gender_id) => a = b
    /\ \A a, b \in DOMAIN dim_region :
          (dim_region[a].region_name = dim_region[b].region_name
           \/ dim_region[a].region_id = dim_region[b].region_id) => a = b

\* two concurrent creators both executed the INSERT for one campaign name
C6_Witness == CopiesIn(cA, insertAttempts["dim_campaign"]) >= 2

UniqueMessages ==
    {"UNIQUE constraint failed: dim_campaign.campaign_name",
     "UNIQUE constraint failed: dim_date.date_key",
     "UNIQUE constraint failed: dim_age_group.age_range",
     "UNIQUE constraint failed: dim_gender.gender",
     "UNIQUE constraint failed: dim_region.region_name"}

\* the entries of errors, over all batches, that record the rejected INSERT
\* of natural key `key` (message msg; KeyOf gives the key a row resolves)
LostRaces(msg, KeyOf(_), key) ==
    {pe \in UNION {{<<p, e>> : e \in DOMAIN errors[p]} : p \in Batches} :
        /\ errors[pe[1]][pe[2]].error = msg
        /\ KeyOf(errors[pe[1]][pe[2]].row) = key}

\* of the INSERTs executed for one natural key exactly one succeeded and
\* every other one is an entry of errors of the batch that executed it
RaceSettled(table, rowsOf(_), msg, KeyOf(_)) ==
    \A key \in BagToSet(insertAttempts[table]) :
        /\ Len(rowsOf(key)) = 1
        /\ CopiesIn(key, insertAttempts[table])
              = 1 + Cardinality(LostRaces(msg, KeyOf, key))

\* C7: when concurrent batches execute the INSERT for the same new natural
\* key, exactly one INSERT succeeds and each other one is recorded as an
\* entry of errors for the row that executed it: no fact row is written for
\* that row, the loop goes on to the next row, and every batch returns a 200
\* result having attempted all its rows.
C7_LostRaceIsRowError ==
    /\ RaceSettled("dim_campaign", SelectCampaign,
                   "UNIQUE constraint failed: dim_campaign.campaign_name",
                   LAMBDA row : row.Campaign)
    /\ RaceSettled("dim_date", SelectDate,
                   "UNIQUE constraint failed: dim_date.date_key",
                   LAMBDA row : DateKeyOf(row.Date))
    /\ RaceSettled("dim_age_group", SelectAge,
                   "UNIQUE constraint failed: dim_age_group.age_range",
                   LAMBDA row : row.Age)
    /\ RaceSettled("dim_gender", SelectGender,
                   "UNIQUE constraint failed: dim_gender.gender",
                   LAMBDA row : ToLowerCase(row.Gender))
    /\ RaceSettled("dim_region", SelectRegion,
                   "UNIQUE constraint failed: dim_region.region_name",
                   LAMBDA row : row.Region)
    /\ \A p \in Batches :
          /\ \A e \in DOMAIN errors[p] :
                errors[p][e].error \in UniqueMessages =>
                    /\ errors[p][e].idx \notin FactIdx(p)
                    /\ pc[p] = "done" \/ i[p] > errors[p][e].idx
          /\ pc[p] = "done" =>
                /\ response[p].status = 200
                /\ response[p].success
                /\ FactIdx(p) \cup ErrorIdx(p) = 1..NumRows(p)

\* both batches found campaign cA absent; one lost the INSERT on its first
\* row, recorded it, and inserted its second row; the other inserted its row
C7_Witness ==
    \E p, q \in Batches :
        /\ p # q
        /\ pc[p] = "done" /\ pc[q] = "done"
        /\ Len(errors[p]) = 1
        /\ errors[p][1].idx = 1
        /\ errors[p][1].error = "UNIQUE constraint failed: dim_campaign.campaign_name"
        /\ FactIdx(p) = {2}
        /\ 1 \in FactIdx(q)

Kept(t, tNext) == Len(tNext) >= Len(t) /\ \A n \in DOMAIN t : tNext[n] = t[n]

\* C8: no step of any ingest or read operation removes or changes a row of
\* a dimension or fact table: every row stays where it is with the
\* attributes it was created with (tables only grow at the end).
C8_NoMutation ==
    [][/\ Kept(dim_date, dim_date')
       /\ Kept(dim_campaign, dim_campaign')
       /\ Kept(dim_age_group, dim_age_group')
       /\ Kept(dim_gender, dim_gender')
       /\ Kept(dim_region, dim_region')
       /\ Kept(fact_ads_performance, fact_ads_performance')
       /\ Kept(fact_ads_demographics, fact_ads_demographics')
       /\ Kept(fact_ads_regions, fact_ads_regions')]_vars

\* a campaign was created, resolved again by lookup, and two fact rows of it
\* were inserted
C8_Witness ==
    /\ \E c \in CampaignCalls : c.stmts = 1
    /\ \E a, b \in DOMAIN fact_ads_performance :
          /\ a # b
          /\ fact_ads_performance[a].campaign_id = fact_ads_performance[b].campaign_id
          /\ fact_ads_performance[a].date_key = fact_ads_performance[b].date_key

Stepped(p) ==
    \/ pc'[p] # pc[p]
    \/ i'[p] # i[p]
    \/ kind'[p] # kind[p]

\* C9: a step of a read operation, successful or failed, leaves every
\* dimension and fact table unchanged; a step that changes a table is a step
\* of one of the three ingest operations.
C9_ReadsLeaveStore ==
    [][/\ \A p \in Requests : (kind'[p] \in ReadOps /\ Stepped(p)) => store' = store
       /\ store' # store => \E p \in Requests : kind[p] \in IngestKinds /\ Stepped(p)]_vars

\* a read failed over a store that holds facts
C9_Witness ==
    /\ AllFacts # {}
    /\ \E p \in Requests :
          kind[p] \in ReadOps /\ pc[p] = "done" /\ response[p].status = 500

ResolverNames == {"getOrCreateCampaign", "getOrCreateDate", "getOrCreateAge",
                  "getOrCreateGender", "getOrCreateRegion"}

\* no INSERT was executed for, and no dimension row holds, an empty key
NoEmptyKeyStored ==
    /\ \A t \in {"dim_campaign", "dim_age_group", "dim_gender", "dim_region"} :
          \A key \in BagToSet(insertAttempts[t]) : ~Falsy(key)
    /\ \A n \in DOMAIN dim_campaign : ~Falsy(dim_campaign[n].campaign_name)
    /\ \A n \in DOMAIN dim_date : ~Falsy(dim_date[n].full_date)
    /\ \A n \in DOMAIN dim_age_group : ~Falsy(dim_age_group[n].age_range)
    /\ \A n \in DOMAIN dim_gender : ~Falsy(dim_gender[n].gender)
    /\ \A n \in DOMAIN dim_region : ~Falsy(dim_region[n].region_name)

\* C10 as claimed: every resolver returns null for a missing or empty
\* natural key, executing no SELECT and no INSERT.
C10_AllResolversNull ==
    /\ \A c \in calls : Falsy(c.arg) => c.ret = Null /\ c.stmts = 0
    /\ NoEmptyKeyStored

\* C10 as the code has it: for a missing or empty natural key the campaign,
\* date and region resolvers return null, the age resolver returns 1 and the
\* gender resolver returns 3; none of the five executes a SELECT or an
\* INSERT in that case.
C10_MissingKeyResult ==
    /\ \A c \in calls :
          Falsy(c.arg) =>
              /\ c.stmts = 0
              /\ c.fn \in {"getOrCreateCampaign", "getOrCreateDate", "getOrCreateRegion"}
                    => c.ret = Null
              /\ c.fn = "getOrCreateAge" => c.ret = 1
              /\ c.fn = "getOrCreateGender" => c.ret = 3
    /\ NoEmptyKeyStored

\* each of the five resolvers was called with a missing or empty key
C10_Witness ==
    \A fn \in ResolverNames : \E c \in calls : c.fn = fn /\ Falsy(c.arg)

AgeCalls    == {c \in calls : c.fn = "getOrCreateAge"}
GenderCalls == {c \in calls : c.fn = "getOrCreateGender"}

\* two strings of one length whose characters agree up to the case of letters
SameUpToCase(s, t) ==
    /\ Len(s) = Len(t)
    /\ \A k \in DOMAIN s :
          \/ s[k] = t[k]
          \/ \E u \in DOMAIN UpperLetters :
                {s[k], t[k]} = {UpperLetters[u], LowerLetters[u]}

\* C11: in every state reached from the seeded store, a resolve of a
\* missing age returned the key of the first seeded age group (13-17, the
\* smallest age_id), a resolve of a missing gender returned the key of the
\* row whose gender is "unknown", and gender strings that differ only in
\* letter case resolved to one key, with at most one INSERT and one row for
\* the lot of them.
C11_AgeGenderDefaults ==
    /\ \A c \in AgeCalls :
          Falsy(c.arg) =>
              /\ \E r \in Range(dim_age_group) :
                    r.age_id = c.ret /\ r.age_range = Str_13_17
              /\ \A r \in Range(dim_age_group) : r.age_id >= c.ret
    /\ \A c \in GenderCalls :
          Falsy(c.arg) =>
              \E r \in Range(dim_gender) :
                  r.gender_id = c.ret /\ r.gender = Str_unknown
    /\ \A c1, c2 \in GenderCalls :
          (~Falsy(c1.arg) /\ ~Falsy(c2.arg) /\ SameUpToCase(c1.arg, c2.arg))
              => c1.ret = c2.ret
    /\ \A a, b \in DOMAIN dim_gender :
          SameUpToCase(dim_gender[a].gender, dim_gender[b].gender) => a = b
    /\ \A key \in BagToSet(insertAttempts["dim_gender"]) :
          Cardinality({k2 \in BagToSet(insertAttempts["dim_gender"]) :
                          SameUpToCase(key, k2)}) = 1
          /\ CopiesIn(key, insertAttempts["dim_gender"]) = 1

\* missing age and gender were resolved, "Other" and "OTHER" resolved to one
\* created key, and "UNKNOWN" resolved to the seeded key of "unknown"
C11_Witness ==
    /\ \E c \in AgeCalls : Falsy(c.arg)
    /\ \E c \in GenderCalls : Falsy(c.arg)
    /\ \E c1, c2 \in GenderCalls :
          c1.arg = gOther /\ c2.arg = gOTHER /\ c1.ret = c2.ret /\ c1.ret > 3
    /\ \E c \in GenderCalls : c.arg = gUNKNOWN /\ c.ret = 3

\* C12 as claimed: in a finished regions batch, a row with a missing or
\* empty Region and a valid Campaign and Date is no entry of errors: it is a
\* row of fact_ads_regions whose region_id is null, counted in processed.
C12_MissingRegionInserted ==
    \A p \in Batches :
        (kind[p] = "regions" /\ pc[p] = "done") =>
            \A k \in 1..NumRows(p) :
                (/\ Falsy(data[p].rows[k].Region)
                 /\ ~Falsy(data[p].rows[k].Campaign)
                 /\ ~Falsy(data[p].rows[k].Date))
                => /\ k \notin ErrorIdx(p)
                   /\ \E f \in Range(fact_ads_regions) :
                         f.src = <<p, k>> /\ f.region_id = Null
                   /\ processed[p] >= 1

IsLeapYear(y) == (y % 4 = 0 /\ y % 100 # 0) \/ y % 400 = 0
DaysInMonth(y, m) ==
    IF m = 2 THEN (IF IsLeapYear(y) THEN 29 ELSE 28)
    ELSE IF m \in {4, 6, 9, 11} THEN 30 ELSE 31

\* the calendar day that follows a date
DayAfter(dateStr) ==
    LET y == YearOf(dateStr)
        m == MonthOf(dateStr)
        d == DayOf(dateStr)
    IN IF d < DaysInMonth(y, m) THEN IsoDate(y, m, d + 1)
       ELSE IF m < 12 THEN IsoDate(y, m + 1, 1)
       ELSE IsoDate(y + 1, 1, 1)

\* the ordinal of a date counted from 0001-01-01 by the rules of the
\* Gregorian calendar
LeapYearsBefore(y) == (y - 1) \div 4 - (y - 1) \div 100 + (y - 1) \div 400
DaysBeforeMonth(y, m) ==
    <<0, 31, 59, 90, 120, 151, 181, 212, 243, 273, 304, 334>>[m]
    + (IF m > 2 /\ IsLeapYear(y) THEN 1 ELSE 0)
DayNumber(dateStr) ==
    LET y == YearOf(dateStr)
    IN 365 * (y - 1) + LeapYearsBefore(y) + DaysBeforeMonth(y, MonthOf(dateStr))
       + DayOf(dateStr)

\* the number of calendar days from a date to another
DaysApart(from, to) == DayNumber(to) - DayNumber(from)

PeriodCalls ==
    {p \in Requests : kind[p] = "getPreviousPeriod" /\ pc[p] = "done"}

\* C13: for valid ISO dates startDate <= endDate, the window that
\* getPreviousPeriod returns ends on the calendar day before startDate and
\* spans as many days as the current window, so the two windows neither
\* overlap nor leave a day between them; [2025-12-01, 2025-12-10] gives
\* [2025-11-21, 2025-11-30].
C13_PreviousPeriodAdjacent ==
    \A p \in PeriodCalls :
        LET cur  == data[p]
            prev == response[p].returned
        IN DateKeyOf(cur.startDate) <= DateKeyOf(cur.endDate) =>
              /\ DayAfter(prev.endDate) = cur.startDate
              /\ DateKeyOf(prev.startDate) <= DateKeyOf(prev.endDate)
              /\ DateKeyOf(prev.endDate) < DateKeyOf(cur.startDate)
              /\ DaysApart(prev.startDate, prev.endDate)
                    = DaysApart(cur.startDate, cur.endDate)
              /\ (cur.startDate = IsoDate(2025, 12, 1) /\ cur.endDate = IsoDate(2025, 12, 10))
                    => prev = [startDate |-> IsoDate(2025, 11, 21),
                               endDate |-> IsoDate(2025, 11, 30)]

\* the previous window of a window that starts on 1 March of a leap year,
\* and of a one-year window that starts on 1 January
C13_Witness ==
    /\ \E p \in PeriodCalls :
          /\ data[p].startDate = IsoDate(2024, 3, 1)
          /\ response[p].returned.endDate = IsoDate(2024, 2, 29)
    /\ \E p \in PeriodCalls :
          /\ data[p] = [startDate |-> IsoDate(2024, 1, 1), endDate |-> IsoDate(2024, 12, 31)]
          /\ response[p].returned.endDate = IsoDate(2023, 12, 31)

GrowthCalls == {p \in Requests : kind[p] = "growth" /\ pc[p] = "done"}
KpisCalls   == {p \in Requests : kind[p] = "kpis" /\ pc[p] = "done"}

\* C14: growth(curr, prev) is 100 whenever prev is zero or absent, whatever
\* curr is, and otherwise the fraction r with r * prev = (curr - prev) * 100;
\* growth(100, 0) = 100 and growth(150, 100) = 50; and the kpis of an
\* overview whose two periods hold no fact report 100 for each of the four
\* growth figures.
C14_Growth ==
    /\ \A p \in GrowthCalls :
          LET c == data[p].curr
              q == data[p].prev
              r == response[p].returned
          IN /\ (q = NullNum \/ q.num = 0) => r = Num(100)
             /\ (q # NullNum /\ q.num # 0) =>
                   /\ r.den > 0
                   /\ r.num * q.num * c.den = 100 * (c.num * q.den - q.num * c.den) * r.den
             /\ (c = Num(100) /\ q = Num(0)) => r = Num(100)
             /\ (c = Num(150) /\ q = Num(100)) => r = Num(50)
    /\ \A p \in KpisCalls :
          LET k == response[p].returned
          IN (/\ data[p].current.total_spend = NullNum
              /\ data[p].current.total_impressions = NullNum
              /\ data[p].current.total_results = NullNum
              /\ data[p].previous.total_spend = NullNum
              /\ data[p].previous.total_impressions = NullNum
              /\ data[p].previous.total_results = NullNum)
             => /\ k.growth_spend = Num(100)
                /\ k.growth_impressions = Num(100)
                /\ k.growth_results = Num(100)
                /\ k.growth_cpm = Num(100)
                /\ k.total_spend = Num(0)

\* growth was called with curr = 0 on a zero baseline and with 150 on 100,
\* and the kpis of two empty periods were built
C14_Witness ==
    /\ \E p \in GrowthCalls :
          data[p] = [curr |-> Num(0), prev |-> Num(0)] /\ response[p].returned = Num(100)
    /\ \E p \in KpisCalls :
          /\ data[p].current.total_spend = NullNum
          /\ data[p].previous.total_spend = NullNum
          /\ response[p].returned.growth_cpm = Num(100)

ExtractCalls ==
    {p \in Requests :
        /\ kind[p] \in {"getTopProducts.extractProductLine",
                         "getProductDaily.extractProductLine"}
        /\ pc[p] = "done"}

\* the keyword occurs in the name when the case of letters is ignored
OccursIn(keyword, name) ==
    \E k \in 0..(Len(name) - Len(keyword)) :
        SameUpToCase(SubSeq(name, k + 1, k + Len(keyword)), keyword)

\* the product of the table has a keyword that occurs in the name
Matches(k, name) ==
    \E w \in DOMAIN productMapping[k].keywords :
        OccursIn(productMapping[k].keywords[w], name)

\* C16: extractProductLine, in getTopProducts and in getProductDaily alike,
\* yields "Mix Product" for an empty or absent ad name and for a name in
\* which no keyword occurs, and otherwise the first product of the table,
\* in declaration order, one of whose keywords occurs in the upper-cased
\* name; its value is always a declared product name or "Mix Product".
C16_ProductLine ==
    \A p \in ExtractCalls :
        LET name == data[p]
            line == response[p].returned
        IN /\ line \in {productMapping[k].name : k \in DOMAIN productMapping}
                        \cup {"Mix Product"}
           /\ name \in {Empty, Undefined, NullText} => line = "Mix Product"
           /\ name \notin {Empty, Undefined, NullText} =>
                 /\ (\A k \in DOMAIN productMapping : ~Matches(k, name))
                       => line = "Mix Product"
                 /\ \A k \in DOMAIN productMapping :
                       (Matches(k, name) /\ \A j \in 1..(k - 1) : ~Matches(j, name))
                           => line = productMapping[k].name
           /\ name = adDirtyMilk => line = "DIRTY MILK"
           /\ name = adRandom => line = "Mix Product"

\* a name with the keywords of two products went to the one declared first,
\* in both copies of the function, and an empty name went to "Mix Product"
C16_Witness ==
    /\ \E p \in ExtractCalls :
          /\ kind[p] = "getTopProducts.extractProductLine"
          /\ data[p] = adMatchaMilk
          /\ response[p].returned = "DIRTY MILK"
    /\ \E p \in ExtractCalls :
          /\ kind[p] = "getProductDaily.extractProductLine"
          /\ data[p] = Empty
          /\ response[p].returned = "Mix Product"

\* the breakdown requests that were answered with the three result sets
BreakdownReads ==
    {p \in Requests : kind[p] = "breakdown" /\ pc[p] = "done" /\ response[p].status = 200}

\* the channel the rule gives a campaign name: Facebook tokens first
ChannelRule(name) ==
    IF OccursIn(tokFB, name) \/ OccursIn(tokFacebook, name) THEN "Facebook"
    ELSE IF OccursIn(tokIG, name) \/ OccursIn(tokInstagram, name) THEN "Instagram"
    ELSE "Other"

\* C15: in every breakdown answer each campaign row carries the channel of
\* the fixed-order rule (Facebook if the name contains "FB" or "Facebook",
\* letter case ignored; else Instagram if it contains "IG" or "Instagram";
\* else Other), so a name with tokens of both is Facebook; and the channel
\* rows group the campaigns the same way: each channel row's spend,
\* impressions and results are the sums over the campaign rows of that
\* channel, and every campaign row's channel has a channel row.
C15_ChannelClassification ==
    \A p \in BreakdownReads :
        LET campaigns == response[p].data.by_campaign.items
            channels == response[p].data.by_channel.items
            Of(ch) == SelectSeq(campaigns, LAMBDA r : r.channel = ch)
            Sum(rows, col) == Num(SumInts([k \in DOMAIN rows |-> rows[k][col].num]))
        IN /\ \A k \in DOMAIN campaigns :
                 /\ campaigns[k].channel = ChannelRule(campaigns[k].campaign_name)
                 /\ campaigns[k].channel \in {"Facebook", "Instagram", "Other"}
                 /\ \E c \in DOMAIN channels : channels[c].channel = campaigns[k].channel
           /\ \A c \in DOMAIN channels :
                 /\ Of(channels[c].channel) # <<>>
                 /\ channels[c].total_spend = Sum(Of(channels[c].channel), "total_spend")
                 /\ channels[c].total_impressions =
                        Sum(Of(channels[c].channel), "total_impressions")
                 /\ channels[c].total_results = Sum(Of(channels[c].channel), "total_results")
           /\ \A c, e \in DOMAIN channels : channels[c].channel = channels[e].channel => c = e

\* a breakdown answered with a campaign whose name has a Facebook and an
\* Instagram token, filed under Facebook, and with a campaign whose name has
\* a lower-case "ig", filed under Instagram, in two channel rows
C15_Witness ==
    /\ \E p \in BreakdownReads :
          LET campaigns == response[p].data.by_campaign.items
              channels == response[p].data.by_channel.items
          IN /\ \E k \in DOMAIN campaigns :
                    campaigns[k].campaign_name = cBoth /\ campaigns[k].channel = "Facebook"
             /\ \E k \in DOMAIN campaigns :
                    campaigns[k].campaign_name = cLower /\ campaigns[k].channel = "Instagram"
             /\ Len(channels) = 2

\* C19: every answered product-daily request succeeded and returned the
\* reshaped result: the dates and one series per selected top product.
C19_ProductDailySucceeds ==
    \A p \in Requests :
        (kind[p] = "product-daily" /\ pc[p] = "done") =>
            /\ response[p].status = 200
            /\ response[p].success
            /\ {"dates", "series", "topProducts"} \subseteq DOMAIN response[p].data

\* the daily-trend requests answered over a window given by both dates, after
\* a batch of performance rows of which every row became a fact
DailyAfterIngest ==
    {p \in Requests :
        /\ kind[p] = "daily" /\ pc[p] = "done" /\ response[p].status = 200
        /\ ~Falsy(data[p].startDate) /\ ~Falsy(data[p].endDate)
        /\ p > 1
        /\ kind[1] = "performance" /\ pc[1] = "done" /\ data[1].isArray
        /\ processed[1] = Len(data[1].rows)}

\* C20: after a batch of valid performance rows, daily-trend over
\* [startDate, endDate] returns exactly one entry per date D of the batch
\* with startDate <= D <= endDate, in ascending date order, whose spend and
\* impressions are the sums over the rows ingested for D: no ingested row of
\* the range is missed and no row outside it is counted.
C20_DailyRoundTrip ==
    \A p \in DailyAfterIngest :
        LET rows == data[1].rows
            InRange(D) == /\ DayNumber(data[p].startDate) <= DayNumber(D)
                          /\ DayNumber(D) <= DayNumber(data[p].endDate)
            days == {rows[k].Date : k \in {j \in DOMAIN rows : InRange(rows[j].Date)}}
            Of(D) == SelectSeq(rows, LAMBDA r : r.Date = D)
            entries == response[p].data.current.items
        IN /\ Len(entries) = Cardinality(days)
           /\ {entries[k].full_date : k \in DOMAIN entries} = days
           /\ \A a, b \in DOMAIN entries :
                 a < b => DayNumber(entries[a].full_date) < DayNumber(entries[b].full_date)
           /\ \A k \in DOMAIN entries :
                 /\ entries[k].spend =
                        Num(SumInts(Column(Of(entries[k].full_date), "AmountSpent")))
                 /\ entries[k].impressions =
                        Num(SumInts(Column(Of(entries[k].full_date), "Impressions")))

\* a batch of two rows of one date was ingested and then daily-trend over a
\* window that holds the date returned one entry with the two rows summed
C20_Witness ==
    \E p \in DailyAfterIngest :
        /\ data[1].rows = <<PerfFact(cB, d1, adRandom, 150, 0, 2000),
                            PerfFact(cNone, d1, Undefined, 50, 1, 500)>>
        /\ data[p].startDate = d1 /\ data[p].endDate = d2
        /\ response[p].data.current.items =
              <<[full_date |-> d1, spend |-> Num(200), impressions |-> Num(2500)]>>

\* the read operations that take startDate and endDate
DatedOps == {"overview", "daily", "campaigns", "demographics_read", "regions_read",
             "breakdown", "top-ads", "top-products", "product-daily"}

\* the answered requests of these operations whose queries succeeded
DatedReads ==
    {p \in Requests : kind[p] \in DatedOps /\ pc[p] = "done" /\ response[p].status = 200}

\* the bodies an operation can return for the parameters over the fact
\* tables P (performance), D (demographics) and R (regions)
BodiesOver(op, params, P, D, R) ==
    CASE op = "overview"          -> {OverviewBody(params, P)}
      [] op = "daily"             -> {DailyBody(params, P)}
      [] op = "campaigns"         -> CampaignsBodies(params, P)
      [] op = "demographics_read" -> DemographicsBodies(params, D)
      [] op = "regions_read"      -> RegionsBodies(params, R)
      [] op = "breakdown"         -> BreakdownBodies(params, P)
      [] op = "top-ads"           -> TopAdsBodies(params, P)
      [] op = "top-products"      -> TopProductsBodies(params, P)

\* the day 30 days before the day the requests are served (2025-11-14)
TrailingStart == IsoDate(2025, 10, 15)

\* the facts of a table dated from a day to another, both included
Dated(F, from, to) ==
    SelectSeq(F, LAMBDA f :
        \E d \in Range(dim_date) :
            /\ d.date_key = f.date_key
            /\ DayNumber(from) <= DayNumber(d.full_date)
            /\ DayNumber(d.full_date) <= DayNumber(to))

\* C17: a read operation that takes startDate and endDate and is sent
\* without one of them answers as it answers the same request sent with the
\* trailing 30 days that end today, over the facts of these 30 days alone;
\* sent with both dates, an operation without previous-period comparison
\* answers from the facts dated between them alone.
C17_DefaultWindow ==
    \A p \in DatedReads :
        LET absent == Falsy(data[p].startDate) \/ Falsy(data[p].endDate)
            from == IF absent THEN TrailingStart ELSE data[p].startDate
            to == IF absent THEN data[p].today ELSE data[p].endDate
            explicit == [data[p] EXCEPT !.startDate = from, !.endDate = to]
            compares == kind[p] = "overview" \/ (kind[p] = "daily" /\ data[p].compare)
        IN /\ response[p].data \in
                  BodiesOver(kind[p], explicit, fact_ads_performance,
                             fact_ads_demographics, fact_ads_regions)
           /\ ~compares =>
                 response[p].data \in
                     BodiesOver(kind[p], explicit, Dated(fact_ads_performance, from, to),
                                Dated(fact_ads_demographics, from, to),
                                Dated(fact_ads_regions, from, to))

\* C18: every answered request, whatever its outcome, carries the envelope
\* {success, data} with success true exactly when the status is 2xx, and
\* every failure carries success false, a non-2xx status and
\* data = {error: message}.
C18_Envelope ==
    \A p \in Requests :
        pc[p] = "done" =>
            /\ {"success", "data"} \subseteq DOMAIN response[p]
            /\ response[p].success <=> (response[p].status \in 200..299)
            /\ ~response[p].success => DOMAIN response[p].data = {"error"}

\* the token occurs in the name, letter for letter
Contains(name, token) ==
    \E k \in 0..(Len(name) - Len(token)) :
        \A j \in 1..Len(token) : name[k + j] = token[j]

\* the objective the ordered rule gives a campaign name
ObjectiveRule(name) ==
    IF Contains(name, tokImpression) THEN "Impression"
    ELSE IF Contains(name, tokVisit) THEN "Visit"
    ELSE IF Contains(name, tokMess) THEN "Message"
    ELSE "Unknown"

\* C21: every campaign row was created with the objective of the ordered,
\* case-sensitive rule on its name ("Impression", else "Visit", else "Mess"
\* for Message, else Unknown), so a name with several tokens has the earliest
\* of them; every region row has region_type City exactly when its name
\* contains "City", and Province otherwise.
C21_ObjectiveDerivation ==
    /\ \A k \in DOMAIN dim_campaign :
          dim_campaign[k].objective = ObjectiveRule(dim_campaign[k].campaign_name)
    /\ \A k \in DOMAIN dim_region :
          /\ dim_region[k].region_type \in {"City", "Province"}
          /\ dim_region[k].region_type = "City"
                <=> Contains(dim_region[k].region_name, <<"C","i","t","y">>)

\* a campaign named with all three tokens was created as Impression, one
\* with lower-case tokens as Unknown, a region named "... City" as City and
\* one named with a lower-case "city" as Province
C21_Witness ==
    /\ \E k \in DOMAIN dim_campaign :
          dim_campaign[k].campaign_name = cMulti /\ dim_campaign[k].objective = "Impression"
    /\ \E k \in DOMAIN dim_campaign :
          dim_campaign[k].campaign_name = cLowerVisit /\ dim_campaign[k].objective = "Unknown"
    /\ \E k \in DOMAIN dim_region :
          dim_region[k].region_name = rB /\ dim_region[k].region_type = "City"
    /\ \E k \in DOMAIN dim_region :
          dim_region[k].region_name = rLowerCity /\ dim_region[k].region_type = "Province"

\* the position of a statement in the loop body of the handler of kind k:
\* the resolvers in the order they are awaited, then the fact insert
Stage(k, at) ==
    CASE at \in {"campaign", "campaignInsert"} -> 1
      [] at \in {"date", "dateInsert"}         -> 2
      [] at \in {"age", "ageInsert"}           -> 3
      [] at \in {"gender", "genderInsert"}     -> 4
      [] at \in {"region", "regionInsert"}     -> 3
      [] at = "fact" -> (CASE k = "performance" -> 3
                           [] k = "demographics" -> 5
                           [] k = "regions" -> 4)
      [] OTHER -> 0

\* a step of batch p keeps the order of the rows and of the statements of a row
RowOrderKept(p) ==
    /\ i'[p] \in {i[p], i[p] + 1}
    /\ (i'[p] = i[p] + 1) => pc'[p] = "campaign"
    /\ (i'[p] = i[p] /\ pc'[p] # "done") =>
          Stage(kind'[p], pc'[p]) \in {Stage(kind'[p], pc[p]), Stage(kind'[p], pc[p]) + 1}
    /\ (pc'[p] = "done" /\ pc[p] # "idle") => i[p] = Len(data[p].rows)
    /\ errors'[p] # errors[p] =>
          /\ Len(errors'[p]) = Len(errors[p]) + 1
          /\ SubSeq(errors'[p], 1, Len(errors[p])) = errors[p]
          /\ errors'[p][Len(errors'[p])].idx = i[p]
          /\ \A e \in DOMAIN errors[p] : errors[p][e].idx < i[p]

\* a step that changes the fact table of kind k appends the fact of the row
\* in work of a batch that is at its fact insert, after the facts of the
\* earlier rows of the batch
FactAppended(k) ==
    LET old == FactTable(k)
        new == FactTable(k)'
    IN new # old =>
          /\ Len(new) = Len(old) + 1
          /\ SubSeq(new, 1, Len(old)) = old
          /\ \E p \in Requests :
                /\ kind[p] = k /\ pc[p] = "fact"
                /\ new[Len(new)].src = <<p, i[p]>>
                /\ \A n \in DOMAIN old : old[n].src[1] = p => old[n].src[2] < i[p]

\* C22: within a batch the rows are worked one after the other: a statement
\* of row i+1 runs only after the loop body of row i is over, the statements
\* of a row run in the order of the loop body, with the fact insert after the
\* last resolver, never before; a fact row is appended for the row in work
\* after the facts of all earlier rows, and an error is pushed for the row
\* in work after the errors of all earlier rows.
C22_RowsInOrder ==
    [][/\ \A p \in Requests : (kind'[p] \in IngestKinds /\ Stepped(p)) => RowOrderKept(p)
       /\ \A k \in IngestKinds : FactAppended(k)]_vars

\* a batch of two rows ended with two errors, of its first and of its second
\* row, and another with two fact rows, of its first and of its second row
C22_Witness ==
    /\ \E p \in Batches :
          /\ pc[p] = "done"
          /\ Len(errors[p]) = 2 /\ errors[p][1].idx = 1 /\ errors[p][2].idx = 2
    /\ \E p \in Batches :
          /\ pc[p] = "done" /\ kind[p] = "demographics"
          /\ \E a, b \in DOMAIN fact_ads_demographics :
                /\ a < b
                /\ fact_ads_demographics[a].src = <<p, 1>>
                /\ fact_ads_demographics[b].src = <<p, 2>>

AggregateCalls == {p \in Requests : kind[p] = "aggregateByProduct" /\ pc[p] = "done"}
TopProductsCalls == {p \in Requests : kind[p] = "topProducts" /\ pc[p] = "done"}

\* the sum of the numbers of a sequence
RECURSIVE SumNums(_)
SumNums(ns) == IF ns = <<>> THEN Num(0) ELSE RatAdd(Head(ns), SumNums(Tail(ns)))

\* per product of a result set, the sum of the metric over the rows that are
\* classified to the product
TotalsByProduct(rows, valueKey, mapping) ==
    LET class == [k \in DOMAIN rows |-> ExtractProductLine(mapping, rows[k].ad_name)]
    IN [q \in Range(class) |->
           SumNums([k \in DOMAIN rows |->
                       IF class[k] = q THEN rows[k][valueKey] ELSE Num(0)])]

\* names is a top-N selection of the products with the totals: at most limit
\* products and as many as there are up to limit, each once, by
\* non-increasing total, and no product left out has a total greater than
\* one that was taken
TopSelection(names, totals, limit) ==
    LET products == DOMAIN totals
        taken == {names[k] : k \in DOMAIN names}
    IN /\ Len(names) <= limit
       /\ Len(names) = IF Cardinality(products) < limit THEN Cardinality(products) ELSE limit
       /\ taken \subseteq products
       /\ \A a, b \in DOMAIN names : a # b => names[a] # names[b]
       /\ \A a, b \in DOMAIN names : a < b => ~RatLess(totals[names[a]], totals[names[b]])
       /\ \A q \in products \ taken : \A t \in taken : ~RatLess(totals[t], totals[q])

\* C23: for every result set and every positive limit, aggregateByProduct of
\* getTopProducts and the topProducts list of getProductDaily hold at most
\* limit products, each once, ordered by non-increasing total; the total of
\* a selected product is the sum of the metric over all rows classified to
\* it, and no product that was not selected has a greater total than a
\* selected one.
C23_TopNSelection ==
    /\ \A p \in AggregateCalls :
          LET sel == response[p].returned
              names == [k \in DOMAIN sel |-> sel[k].product_line]
              totals == TotalsByProduct(data[p].rows, data[p].valueKey, productMapping)
          IN /\ TopSelection(names, totals, data[p].limit)
             /\ \A k \in DOMAIN sel : sel[k].total = totals[sel[k].product_line]
    /\ \A p \in TopProductsCalls :
          TopSelection(response[p].returned,
                       TotalsByProduct(data[p].rows, "total_results", productMappingDaily),
                       data[p].limit)

\* three ads of two products were aggregated with limit 1: the product of
\* the two ads, met second but greater in total, was selected alone
C23_Witness ==
    \E p \in AggregateCalls :
        /\ data[p].limit = 1
        /\ Len(data[p].rows) = 3
        /\ data[p].rows[1].ad_name = adRandom
        /\ data[p].rows[2].ad_name = adDirtyMilk
        /\ data[p].rows[3].ad_name = adMatchaMilk
        /\ data[p].rows[1][data[p].valueKey] = Num(10)
        /\ Len(response[p].returned) = 1
        /\ response[p].returned[1].product_line = "DIRTY MILK"
        /\ response[p].returned[1].total = Num(15)

\* the keys of a fact row of kind k are set and refer to rows of the dimensions
KeysRefer(k, f) ==
    /\ f.date_key # Null /\ HasDate(f.date_key)
    /\ f.campaign_id # Null /\ HasCampaign(f.campaign_id)
    /\ k = "demographics" =>
          /\ f.age_id # Null /\ HasAge(f.age_id)
          /\ f.gender_id # Null /\ HasGender(f.gender_id)
    /\ k = "regions" => (f.region_id # Null /\ HasRegion(f.region_id))

\* C24: in every reachable state, whatever the order and interleaving of the
\* ingest requests, every row of fact_ads_performance, fact_ads_demographics
\* and fact_ads_regions has a date key and a campaign key (and an age and a
\* gender key, or a region key) that are not null and are the key of a row of
\* the dimension table.
C24_ReferentialIntegrity ==
    \A k \in IngestKinds : \A n \in DOMAIN FactTable(k) : KeysRefer(k, FactTable(k)[n])

\* a demographics batch and a regions batch run interleaved, each with the
\* fact of its first row written and its second row in work, and both facts
\* refer to the one campaign row
C24_Witness ==
    \E p, q \in Batches :
        /\ kind[p] = "demographics" /\ kind[q] = "regions"
        /\ i[p] = 2 /\ pc[p] # "done"
        /\ i[q] = 2 /\ pc[q] # "done"
        /\ \E f \in Range(fact_ads_demographics) : f.src = <<p, 1>>
        /\ \E f \in Range(fact_ads_regions) : f.src = <<q, 1>>
        /\ Len(dim_campaign) = 1

\* the natural key a resolver call looks up: the gender in lower case, any
\* other argument as it was sent
LookupKey(c) == IF c.fn = "getOrCreateGender" THEN ToLowerCase(c.arg) ELSE c.arg

StoredKeys(c) ==
    CASE c.fn = "getOrCreateCampaign" ->
            LET rs == SelectCampaign(c.arg) IN [k \in DOMAIN rs |-> rs[k].campaign_id]
      [] c.fn = "getOrCreateDate" ->
            LET rs == SelectDate(DateKeyOf(c.arg)) IN [k \in DOMAIN rs |-> rs[k].date_key]
      [] c.fn = "getOrCreateAge" ->
            LET rs == SelectAge(c.arg) IN [k \in DOMAIN rs |-> rs[k].age_id]
      [] c.fn = "getOrCreateGender" ->
            LET rs == SelectGender(ToLowerCase(c.arg)) IN [k \in DOMAIN rs |-> rs[k].gender_id]
      [] c.fn = "getOrCreateRegion" ->
            LET rs == SelectRegion(c.arg) IN [k \in DOMAIN rs |-> rs[k].region_id]

\* the step in which the row in work of request p fails writes no fact row
\* and leaves the dimension tables as they are, with the rows of the keys
\* the row had resolved up to then
FailedRowKeepsDims(p) ==
    errors'[p] # errors[p] =>
        /\ facts' = facts
        /\ dims' = dims
        /\ i[p] \notin FactIdx(p)'
        /\ loc[p].campaignId # Null =>
              \E r \in Range(dim_campaign') : r.campaign_id = loc[p].campaignId
        /\ loc[p].dateKey # Null =>
              \E r \in Range(dim_date') : r.date_key = loc[p].dateKey
        /\ loc[p].ageId # Null =>
              \E r \in Range(dim_age_group') : r.age_id = loc[p].ageId
        /\ loc[p].genderId # Null =>
              \E r \in Range(dim_gender') : r.gender_id = loc[p].genderId
        /\ loc[p].regionId # Null =>
              \E r \in Range(dim_region') : r.region_id = loc[p].regionId

==========================================================================
